---------------------------- MODULE Spec2Model ----------------------------
(***************************************************************************)
(* Monte Carlo VaR kernel of the Quantitative-Risk-Platform                *)
(* (backend/risk_engines/monte_carlo.py): model construction and its       *)
(* validation, SimulationConfig, the seeded simulation pipeline over the   *)
(* process-wide numpy random state, calculate_var and stress_test.         *)
(*                                                                         *)
(* Numbers are fixed point.  Weights are counted in units of 1e-9 (ONE is  *)
(* 1.0), correlation entries in quarters (CorrOne is 1.0), expected        *)
(* returns and volatilities in tenths (ParamOne is 1.0), log-returns and   *)
(* returns in units of 1/200 (RetOne is 1.0), confidence levels in         *)
(* thousandths (LevelOne is 1.0).                                          *)
(***************************************************************************)
EXTENDS Integers, Sequences, FiniteSets, TLC

\* ---------------------------------------------------------------- bounds
\* Largest number of assets of a portfolio the model builds.
MaxAssets == 2
\* Longest list of confidence levels the construction of a SimulationConfig
\* and the metrics are enumerated over.
MaxLevels == 2

\* ----------------------------------------------------------------- units
ONE == 10^9
CorrOne == 2^2
ParamOne == 10^1
RetOne == 2 * ParamOne * ParamOne
LevelOne == 10^3

\* Python's None for an optional argument: the empty option; Some(x) holds x.
None == {}
Some(x) == {x}
The(o) == CHOOSE x \in o : TRUE
\* A float NaN, as an entry of a matrix (no number of the model is this low).
NaN == -(10^9)

Abs(x) == IF x < 0 THEN -x ELSE x

RECURSIVE SumSeq(_)
SumSeq(s) == IF Len(s) = 0 THEN 0 ELSE s[1] + SumSeq(Tail(s))

\* Floor of the square root of a non-negative integer (bisection).
RECURSIVE ISqrtIn(_, _, _)
ISqrtIn(x, lo, hi) ==
    IF lo >= hi THEN lo
    ELSE LET mid == (lo + hi + 1) \div 2
         IN  IF mid * mid <= x THEN ISqrtIn(x, mid, hi) ELSE ISqrtIn(x, lo, mid - 1)
ISqrt(x) == ISqrtIn(x, 0, IF x < 2^15 THEN x ELSE 2^15)

\* ------------------------------------------------------- AssetParameters
\* The dataclass record; the constructor call AssetParameters(...) is
\* NewAsset followed by __post_init__.
NewAsset(sym, price, mu, vol, w) ==
    [symbol |-> sym, current_price |-> price, expected_return |-> mu,
     volatility |-> vol, weight |-> w]

\* Mutant: the volatility check is dropped.
AssetPostInitNoVol(a) ==
    IF ~(0 <= a.weight /\ a.weight <= ONE) THEN "weight_range" ELSE "ok"

\* Mutant: the weight range check is dropped.
AssetPostInitNoRange(a) ==
    IF a.volatility < 0 THEN "volatility" ELSE "ok"

\* AssetParameters.__post_init__: the ValueError it raises, or "ok".
AssetPostInit(a) ==
    IF a.volatility < 0 THEN "volatility"
    ELSE IF ~(0 <= a.weight /\ a.weight <= ONE) THEN "weight_range"
    ELSE "ok"

\* ------------------------------------------------- correlation matrices
\* A matrix is a sequence of rows; Scalar is the 0-d array np.corrcoef
\* returns for a single variable.
Scalar == <<>>
Shape(m) == IF Len(m) = 0 THEN <<>> ELSE <<Len(m), Len(m[1])>>

Eye(n) == [i \in 1..n |-> [j \in 1..n |-> IF i = j THEN CorrOne ELSE 0]]

\* np.isclose / np.allclose on correlation entries with the default
\* rtol=1e-5, atol=1e-8: |a - b| <= atol + rtol * |b|, both sides times
\* 1e8 * CorrOne.  NaN is close to nothing.
IsCloseCorr(a, b) ==
    /\ a # NaN
    /\ b # NaN
    /\ Abs(a - b) * 10^8 <= CorrOne + 10^3 * Abs(b)

\* np.allclose(corr_matrix, corr_matrix.T) for a square matrix.
IsSymmetric(m) ==
    \A i \in 1..Len(m) : \A j \in 1..Len(m) : IsCloseCorr(m[i][j], m[j][i])

\* np.allclose(np.diag(corr_matrix), 1.0)
DiagIsOne(m) == \A i \in 1..Len(m) : IsCloseCorr(m[i][i], CorrOne)

\* The rows and columns idx (an increasing sequence of indices) of m.
SubMatrix(m, idx) ==
    [i \in 1..Len(idx) |-> [j \in 1..Len(idx) |-> m[idx[i]][idx[j]]]]

DropAt(s, j) == [i \in 1..(Len(s) - 1) |-> IF i < j THEN s[i] ELSE s[i + 1]]

RECURSIVE Det(_)
Det(m) ==
    IF Len(m) = 1 THEN m[1][1]
    ELSE LET minor(j) == [i \in 1..(Len(m) - 1) |-> DropAt(m[i + 1], j)]
             term(j) == (IF j % 2 = 1 THEN 1 ELSE -1) * m[1][j] * Det(minor(j))
         IN  SumSeq([j \in 1..Len(m) |-> term(j)])

RECURSIVE SortedSeq(_)
SortedSeq(S) ==
    IF S = {} THEN <<>>
    ELSE LET x == CHOOSE y \in S : \A z \in S : y <= z
         IN  <<x>> \o SortedSeq(S \ {x})

\* np.any(np.linalg.eigvals(corr_matrix) < -1e-8) for a symmetric matrix.
\* On the grid of the model (entries k/4, |k| <= 6, at most MaxAssets + 1
\* rows) a negative eigenvalue is below -1e-8 and floating-point noise
\* around a zero eigenvalue is above it, so the test is "the matrix is not
\* positive semi-definite": some principal minor is negative.
HasNegativeEigenvalue(m) ==
    \E I \in (SUBSET (1..Len(m))) \ {{}} : Det(SubMatrix(m, SortedSeq(I))) < 0

\* Mutant: the positive semi-definiteness check is dropped.
ValidateCorrelationMatrixNoPSD(corr_matrix, n) ==
    IF Shape(corr_matrix) # <<n, n>> THEN "corr_shape"
    ELSE IF ~IsSymmetric(corr_matrix) THEN "corr_symmetric"
    ELSE IF ~DiagIsOne(corr_matrix) THEN "corr_diagonal"
    ELSE "ok"

\* MonteCarloVaR._validate_correlation_matrix for num_assets = n: the
\* ValueError it raises, or "ok".
ValidateCorrelationMatrix(corr_matrix, n) ==
    IF Shape(corr_matrix) # <<n, n>> THEN "corr_shape"
    ELSE IF ~IsSymmetric(corr_matrix) THEN "corr_symmetric"
    ELSE IF HasNegativeEigenvalue(corr_matrix) THEN "corr_psd"
    ELSE IF ~DiagIsOne(corr_matrix) THEN "corr_diagonal"
    ELSE "ok"

\* ---------------------------------------------------------- MonteCarloVaR
\* np.isclose(total_weight, 1.0, rtol=1e-5) with the default atol=1e-8:
\* |total - 1| <= 1e-8 + 1e-5 * 1, in weight units.
WeightsSumToOne(total) ==
    Abs(total - ONE) <= (ONE \div 10^8) + (ONE \div 10^5)

\* Mutant: the weight-sum check is dropped.
MonteCarloVaRInitNoSum(asset_list, corr_matrix) ==
    LET n == Len(asset_list)
        cerr == IF corr_matrix # None
                THEN ValidateCorrelationMatrix(The(corr_matrix), n) ELSE "ok"
        corr == IF corr_matrix # None THEN The(corr_matrix) ELSE Eye(n)
    IN  [err |-> cerr, assets |-> asset_list, num_assets |-> n,
         correlation_matrix |-> corr]

\* MonteCarloVaR.__init__(assets, correlation_matrix) for an asset list
\* (correlation_matrix is an option): err is the ValueError raised ("ok"
\* when the instance is returned), the other fields are the attributes the
\* constructor has set.
MonteCarloVaRInit(asset_list, corr_matrix) ==
    LET n == Len(asset_list)
        cerr == IF corr_matrix # None
                THEN ValidateCorrelationMatrix(The(corr_matrix), n) ELSE "ok"
        corr == IF corr_matrix # None THEN The(corr_matrix) ELSE Eye(n)
        total_weight == SumSeq([i \in 1..n |-> asset_list[i].weight])
        err == IF cerr # "ok" THEN cerr
               ELSE IF ~WeightsSumToOne(total_weight) THEN "weight_sum"
               ELSE "ok"
    IN  [err |-> err, assets |-> asset_list, num_assets |-> n,
         correlation_matrix |-> corr]

\* The first ValueError raised while the caller builds the AssetParameters
\* of a list, in list order ("ok": all were built).
RECURSIVE FirstAssetError(_)
FirstAssetError(asset_list) ==
    IF Len(asset_list) = 0 THEN "ok"
    ELSE IF AssetPostInit(asset_list[1]) # "ok" THEN AssetPostInit(asset_list[1])
    ELSE FirstAssetError(Tail(asset_list))

\* Building the AssetParameters, then MonteCarloVaR(assets, corr).
BuildModel(asset_list, corr_matrix) ==
    IF FirstAssetError(asset_list) # "ok"
    THEN [err |-> FirstAssetError(asset_list), assets |-> <<>>,
          num_assets |-> 0, correlation_matrix |-> <<>>]
    ELSE MonteCarloVaRInit(asset_list, corr_matrix)

\* The dummy price of from_data (100.0).
DummyPrice == 100

\* MonteCarloVaR.from_data
FromData(asset_names, weights, expected_returns, volatilities, corr_matrix) ==
    BuildModel([i \in 1..Len(asset_names) |->
                   NewAsset(asset_names[i], DummyPrice, expected_returns[i],
                            volatilities[i], weights[i])],
               corr_matrix)

\* ------------------------------------------------- from_historical_data
\* Historical returns are counted in units of 1/HistOne; a returns matrix is
\* a sequence of observations, each a sequence with one return per asset.
HistOne == 10^2

Column(returns_matrix, j) ==
    [o \in 1..Len(returns_matrix) |-> returns_matrix[o][j]]

\* nobs^2 times the population covariance of two columns.
CovNum(x, y) ==
    Len(x) * SumSeq([o \in 1..Len(x) |-> x[o] * y[o]]) - SumSeq(x) * SumSeq(y)

\* np.mean(returns_matrix, axis=0) * 252, in parameter units (rounded down).
AnnualisedMean(x) ==
    (SumSeq(x) * 252 * ParamOne) \div (Len(x) * HistOne)

\* np.std(returns_matrix, axis=0) * np.sqrt(252), in parameter units
\* (rounded down): never negative.
AnnualisedStd(x) ==
    ISqrt(252 * CovNum(x, x) * ParamOne * ParamOne) \div (Len(x) * HistOne)

\* np.corrcoef(returns_matrix.T): a 0-d scalar for a single asset; an entry
\* is NaN when one of its two columns has zero variance.  Exact for two
\* observations (every defined entry is 1 or -1), rounded down otherwise.
CorrCoef(returns_matrix) ==
    LET n == Len(returns_matrix[1])
        c(i, j) ==
            LET x == Column(returns_matrix, i)
                y == Column(returns_matrix, j)
                d == ISqrt(CovNum(x, x) * CovNum(y, y))
            IN  IF d = 0 THEN NaN ELSE (CovNum(x, y) * CorrOne) \div d
    IN  IF n = 1 THEN Scalar
        ELSE [i \in 1..n |-> [j \in 1..n |-> c(i, j)]]

\* MonteCarloVaR.from_historical_data
FromHistoricalData(asset_names, weights, returns_matrix, corr_matrix) ==
    LET n == Len(asset_names)
        expected_returns == [j \in 1..n |-> AnnualisedMean(Column(returns_matrix, j))]
        volatilities == [j \in 1..n |-> AnnualisedStd(Column(returns_matrix, j))]
        corr == IF corr_matrix = None THEN Some(CorrCoef(returns_matrix))
                ELSE corr_matrix
    IN  FromData(asset_names, weights, expected_returns, volatilities, corr)

\* ------------------------------------------------------- SimulationConfig
DefaultConfidenceLevels == <<950, 990, 999>>

\* A level cl with 0 < cl < 1.
LevelInRange(cl) == 0 < cl /\ cl < LevelOne

\* Mutant: the bounds are taken as inclusive.
SimulationConfigInclusive(num_simulations, time_horizon, confidence_levels, random_seed) ==
    LET levels == IF confidence_levels = None THEN DefaultConfidenceLevels
                  ELSE The(confidence_levels)
    IN  [err |-> IF \E i \in 1..Len(levels) : ~(0 <= levels[i] /\ levels[i] <= LevelOne)
                 THEN "ValueError" ELSE "ok",
         num_simulations |-> num_simulations, time_horizon |-> time_horizon,
         confidence_levels |-> levels, random_seed |-> random_seed]

\* SimulationConfig(...) with its __post_init__ (confidence_levels and
\* random_seed are options): err is "ValueError" when the constructor raises,
\* and the other fields are those of the config.
SimulationConfig(num_simulations, time_horizon, confidence_levels, random_seed) ==
    LET levels == IF confidence_levels = None THEN DefaultConfidenceLevels
                  ELSE The(confidence_levels)
    IN  [err |-> IF \E i \in 1..Len(levels) : ~LevelInRange(levels[i])
                 THEN "ValueError" ELSE "ok",
         num_simulations |-> num_simulations, time_horizon |-> time_horizon,
         confidence_levels |-> levels, random_seed |-> random_seed]

\* --------------------------------------------------- numpy's random state
\* np.random is one generator for the whole process.  Its state is the seed
\* it was last seeded with and the number of values drawn since (modulo the
\* generator's period); seed 0 stands for the state taken from the operating
\* system when numpy is imported.
RngPeriod == 3

\* np.random.seed(s)
Seeded(s) == [seed |-> s, pos |-> 0]

\* The standard normal value the generator yields at a position of a
\* seed's stream, in whole units.
NormalAt(s, p) == (((s + 1) * (p + 2) + p * p) % 3) - 1

\* The k values np.random.normal(0, 1, shape) fills the array with, in C
\* order, and the state it leaves.
DrawNormals(r, k) == [i \in 1..k |-> NormalAt(r.seed, (r.pos + i - 1) % RngPeriod)]
Advance(r, k) == [r EXCEPT !.pos = (r.pos + k) % RngPeriod]

\* ------------------------------------------- _generate_correlated_randoms
\* Entries of the correlation transform are counted in units of 1/TransOne.
TransOne == 10^2

\* Entry (i, j) of the lower-triangular Cholesky factor of A, and the
\* radicand of its i-th diagonal entry (Cholesky-Banachiewicz).
RECURSIVE CholEntry(_, _, _)
RECURSIVE CholRadicand(_, _)
CholRadicand(A, i) ==
    (A[i][i] * TransOne * TransOne) \div CorrOne
        - SumSeq([k \in 1..(i - 1) |-> CholEntry(A, i, k) * CholEntry(A, i, k)])
CholEntry(A, i, j) ==
    IF j > i THEN 0
    ELSE IF j = i THEN ISqrt(CholRadicand(A, i))
    ELSE ((A[i][j] * TransOne * TransOne) \div CorrOne
            - SumSeq([k \in 1..(j - 1) |-> CholEntry(A, i, k) * CholEntry(A, j, k)]))
         \div CholEntry(A, j, j)

\* np.linalg.cholesky raises LinAlgError: the matrix is not positive definite.
RECURSIVE CholFailsUpTo(_, _)
CholFailsUpTo(A, i) ==
    IF i = 0 THEN FALSE
    ELSE CholFailsUpTo(A, i - 1) \/ CholRadicand(A, i) <= 0
CholeskyFails(A) == CholFailsUpTo(A, Len(A))

Cholesky(A) == [i \in 1..Len(A) |-> [j \in 1..Len(A) |-> CholEntry(A, i, j)]]

\* The fallback: eigenvectors @ diag(sqrt(max(eigenvalues, 1e-8))) of
\* np.linalg.eigh, for a symmetric matrix with unit diagonal of at most two
\* rows [[1, r], [r, 1]]: the eigenvalues are 1 - |r| and 1 + |r| in
\* ascending order, the eigenvectors (1, -sign r)/sqrt 2 and (1, sign r)/sqrt 2.
\* The floor 1e-8 is below the resolution of the transform: a floored
\* eigenvalue's column is 0.  Of the larger matrices, those whose entries
\* are all 1 or -1 (two observations per asset) are s s^T for a vector s
\* of signs: the eigenvalues are 0, ..., 0, n and the last eigenvector is
\* s / sqrt n, so the last column is s and the others are 0.
EigenTransform(A) ==
    IF Len(A) = 1 THEN <<<<ISqrt((A[1][1] * TransOne * TransOne) \div CorrOne)>>>>
    ELSE IF Len(A) > 2 /\ \A i, j \in 1..Len(A) : Abs(A[i][j]) = CorrOne
    THEN [i \in 1..Len(A) |-> [j \in 1..Len(A) |->
            IF j = Len(A) THEN (A[i][1] * TransOne) \div CorrOne ELSE 0]]
    ELSE LET r == A[1][2]
             sgn == IF r < 0 THEN -1 ELSE 1
             lo == CorrOne - Abs(r)
             hi == CorrOne + Abs(r)
             col(ev) == IF ev <= 0 THEN 0
                        ELSE ISqrt((ev * TransOne * TransOne) \div (2 * CorrOne))
         IN  <<<<col(lo), col(hi)>>, <<-sgn * col(lo), sgn * col(hi)>>>>

\* Mutant: the eigen-decomposition is used whether or not Cholesky fails.
CorrelationTransformAlwaysEigen(A) == EigenTransform(A)

\* Mutant: the Cholesky factor is used even where the decomposition fails.
CorrelationTransformNoFallback(A) == Cholesky(A)

\* The try/except of _generate_correlated_randoms: chol_matrix.
CorrelationTransform(A) ==
    IF CholeskyFails(A) THEN EigenTransform(A) ELSE Cholesky(A)

\* independent_randoms[i][sim][t] of the flat draws, shape (n, num_sims,
\* time_horizon), and correlated_randoms[:, sim, t] = chol_matrix @
\* independent_randoms[:, sim, t] (in units of 1/TransOne).
CorrelatedRandoms(chol_matrix, draws, n, num_sims, time_horizon) ==
    LET independent(i, sim, t) ==
            draws[((i - 1) * num_sims + (sim - 1)) * time_horizon + t]
    IN  [i \in 1..n |-> [sim \in 1..num_sims |-> [t \in 1..time_horizon |->
            SumSeq([k \in 1..n |-> chol_matrix[i][k] * independent(k, sim, t)])]]]

\* ----------------------------------------------------------- the processes
Processes == {"gbm", "mean_reversion", "jump_diffusion"}

\* dt = 1.0 / time_horizon, kept as a fraction.
TimeStep(time_horizon) == [num |-> 1, den |-> time_horizon]

\* np.sqrt(dt) in units of 1/TransOne.
SqrtDt(dt) == ISqrt((dt.num * TransOne * TransOne) \div dt.den)

\* np.exp(e) of a log-return e, both in units of 1/RetOne: the approximant
\* (1 + e/2)^2, which is 1 at 0, never negative and increasing above -2.
Exp(e) ==
    IF e < -2 * RetOne THEN 0
    ELSE ((2 * RetOne + e) * (2 * RetOne + e)) \div (4 * RetOne)

\* Mutant: the Brownian value enters as if the volatility were 1.0.
DiffusionWithoutVolatility(volatility, w) ==
    (ParamOne * w * 2 * ParamOne) \div (TransOne * TransOne)

\* sigma * w for a volatility in parameter units and a Brownian value w in
\* units of 1/TransOne^2, in units of 1/RetOne.
Diffusion(volatility, w) ==
    (volatility * w * 2 * ParamOne) \div (TransOne * TransOne)

\* Mutant: the drift of one step only, drift * dt.
DriftTermPerStep(asset, dt, time_horizon) ==
    LET drift == 2 * ParamOne * asset.expected_return
                    - asset.volatility * asset.volatility
    IN  (drift * dt.num) \div dt.den

\* The deterministic part of the exponent of _simulate_gbm:
\* drift * (time_horizon * dt) with drift = mu - 0.5 * sigma^2.
DriftTerm(asset, dt, time_horizon) ==
    LET drift == 2 * ParamOne * asset.expected_return
                    - asset.volatility * asset.volatility
    IN  (drift * time_horizon * dt.num) \div dt.den

\* _simulate_gbm(asset, randoms, dt, time_horizon): the return of each path.
SimulateGbm(asset, randoms, dt, time_horizon) ==
    LET num_sims == Len(randoms)
        cumulative(sim) == SumSeq([t \in 1..time_horizon |-> randoms[sim][t] * SqrtDt(dt)])
        final_price(sim) ==
            asset.current_price
                * Exp(DriftTerm(asset, dt, time_horizon)
                        + Diffusion(asset.volatility, cumulative(sim)))
    IN  [sim \in 1..num_sims |->
            (final_price(sim) - asset.current_price * RetOne) \div asset.current_price]

\* The log-price relative to log(current_price) after the first t steps of
\* the Ornstein-Uhlenbeck loop (theta = 0.5).
RECURSIVE LogPriceAfter(_, _, _, _)
LogPriceAfter(asset, path, dt, t) ==
    IF t = 0 THEN 0
    ELSE LET x == LogPriceAfter(asset, path, dt, t - 1)
             mu == 2 * ParamOne * asset.expected_return
         IN  x + ((mu - x) * dt.num) \div (2 * dt.den)
               + Diffusion(asset.volatility, path[t] * SqrtDt(dt))

\* _simulate_mean_reversion(asset, randoms, dt, time_horizon)
SimulateMeanReversion(asset, randoms, dt, time_horizon) ==
    [sim \in 1..Len(randoms) |->
        (asset.current_price * Exp(LogPriceAfter(asset, randoms[sim], dt, time_horizon))
            - asset.current_price * RetOne) \div asset.current_price]

\* Portfolio returns are counted in units of 1/PortOne: a weight rounded to
\* hundredths times a return in units of 1/RetOne.
PortOne == 10^2 * RetOne

\* Mutant: the last path is left out of the portfolio returns.
PortfolioReturnsDropsLast(asset_list, random_numbers, process, dt, num_sims, time_horizon) ==
    LET asset_returns(i) ==
            IF process = "gbm"
            THEN SimulateGbm(asset_list[i], random_numbers[i], dt, time_horizon)
            ELSE SimulateMeanReversion(asset_list[i], random_numbers[i], dt, time_horizon)
    IN  [sim \in 1..(num_sims - 1) |->
            SumSeq([i \in 1..Len(asset_list) |->
                ((asset_list[i].weight + ONE \div (2 * 10^2)) \div (ONE \div 10^2))
                    * asset_returns(i)[sim]])]

\* The loop of simulate_portfolio_returns over the assets:
\* portfolio_returns += asset.weight * asset_returns.
PortfolioReturns(asset_list, random_numbers, process, dt, num_sims, time_horizon) ==
    LET asset_returns(i) ==
            IF process = "gbm"
            THEN SimulateGbm(asset_list[i], random_numbers[i], dt, time_horizon)
            ELSE SimulateMeanReversion(asset_list[i], random_numbers[i], dt, time_horizon)
    IN  [sim \in 1..num_sims |->
            SumSeq([i \in 1..Len(asset_list) |->
                ((asset_list[i].weight + ONE \div (2 * 10^2)) \div (ONE \div 10^2))
                    * asset_returns(i)[sim]])]

\* ---------------------------------------------------------- calculate_var
RECURSIVE Sorted(_)
Sorted(s) ==
    IF Len(s) = 0 THEN <<>>
    ELSE LET i == CHOOSE a \in 1..Len(s) : \A b \in 1..Len(s) : s[a] <= s[b]
         IN  <<s[i]>> \o Sorted([b \in 1..(Len(s) - 1) |-> IF b < i THEN s[b] ELSE s[b + 1]])

Range(s) == {s[i] : i \in 1..Len(s)}

\* Mutant: the percentile of the confidence level itself.
PercentileNotComplemented(confidence_level) == confidence_level

\* percentile = (1 - confidence_level) * 100, in units of 1/10 percent.
Percentile(confidence_level) == LevelOne - confidence_level

\* np.percentile(portfolio_returns, percentile), linear interpolation between
\* the two nearest order statistics, in units of 1/(PortOne * LevelOne).
NpPercentile(returns, percentile) ==
    LET a == Sorted(returns)
        pos == percentile * (Len(a) - 1)
        lo == pos \div LevelOne + 1
        hi == IF lo < Len(a) THEN lo + 1 ELSE lo
    IN  a[lo] * LevelOne + (pos % LevelOne) * (a[hi] - a[lo])

\* The VaR and CVaR of one confidence level.  The CVaR is a fraction
\* num/den in the units of the VaR.
\* Mutant: the percentile is recorded without the change of sign.
VarValueNotNegated(returns, confidence_level) ==
    NpPercentile(returns, Percentile(confidence_level))

VarValue(returns, confidence_level) ==
    -NpPercentile(returns, Percentile(confidence_level))

\* Mutant: the tail is taken above the threshold instead of below it.
CvarValueUpperTail(returns, confidence_level) ==
    LET var_value == VarValue(returns, confidence_level)
        tail_returns == SelectSeq(returns, LAMBDA r : r * LevelOne >= -var_value)
    IN  IF Len(tail_returns) > 0
        THEN [num |-> -(SumSeq(tail_returns) * LevelOne), den |-> Len(tail_returns)]
        ELSE [num |-> var_value, den |-> 1]

\* Mutant: returns equal to the threshold are left out of the tail.
CvarValueStrictTail(returns, confidence_level) ==
    LET var_value == VarValue(returns, confidence_level)
        tail_returns == SelectSeq(returns, LAMBDA r : r * LevelOne < -var_value)
    IN  IF Len(tail_returns) > 0
        THEN [num |-> -(SumSeq(tail_returns) * LevelOne), den |-> Len(tail_returns)]
        ELSE [num |-> var_value, den |-> 1]

CvarValue(returns, confidence_level) ==
    LET var_value == VarValue(returns, confidence_level)
        tail_returns == SelectSeq(returns, LAMBDA r : r * LevelOne <= -var_value)
    IN  IF Len(tail_returns) > 0
        THEN [num |-> -(SumSeq(tail_returns) * LevelOne), den |-> Len(tail_returns)]
        ELSE [num |-> var_value, den |-> 1]

\* The statistics of the result that are sums and extremes (the mean as
\* sum/count).  The standard deviation, skewness and kurtosis are further
\* functions of the same vector and are not carried.
Statistics(returns, num_simulations) ==
    [mean_return |-> [num |-> SumSeq(returns), den |-> Len(returns)],
     min_return |-> Sorted(returns)[1],
     max_return |-> Sorted(returns)[Len(returns)],
     num_simulations |-> num_simulations]

\* The VaRResults calculate_var builds from a non-empty return vector.
VaRResults(returns, config) ==
    [kind |-> "VaRResults",
     var_estimates |-> [c \in Range(config.confidence_levels) |-> VarValue(returns, c)],
     cvar_estimates |-> [c \in Range(config.confidence_levels) |-> CvarValue(returns, c)],
     percentiles |-> [c \in Range(config.confidence_levels) |-> Percentile(c)],
     portfolio_returns |-> returns,
     statistics |-> Statistics(returns, config.num_simulations)]

\* ------------------------------------------------------------------ state
VARIABLES
    ctor,                \* the last construction call: its path and arguments
    ctor_err,            \* what it raised ("ok": the instance was returned)
    heap,                \* the AssetParameters objects, by reference
    assets,              \* self.assets: a list of references into heap
    num_assets,          \* self.num_assets
    correlation_matrix,  \* self.correlation_matrix
    cfg,                 \* the last SimulationConfig(...) call and its outcome
    rng,                 \* the state of np.random
    config,              \* per caller: the SimulationConfig it holds (an option)
    pc,                  \* per caller: where its call stands ("idle": none)
    frame,               \* per caller: the locals of its call
    result,              \* per caller: what its last call returned or raised
    app,                 \* the FastAPI application: its module and its routes
    processor,           \* the DataProcessor instance: its three attributes
    reply                \* what the last request or DataProcessor call was answered

modelVars == <<ctor, ctor_err, heap, assets, num_assets, correlation_matrix>>
callVars == <<rng, config, pc, frame, result>>
webVars == <<app, processor, reply>>
vars == <<ctor, ctor_err, heap, assets, num_assets, correlation_matrix, cfg,
          rng, config, pc, frame, result, app, processor, reply>>

\* The callers of the kernel: threads of one process.
Threads == {1, 2}

Symbols == <<"A", "B", "C", "D">>

\* The instance a construction call leaves behind: every AssetParameters of
\* the list is an object of its own, and self.assets refers to them in order.
\* ctor records the call: the AssetParameters it asked for, the matrix its
\* caller supplied and the matrix handed to MonteCarloVaR(assets, matrix).
Constructed(path, asset_list, supplied, corr, built) ==
    /\ ctor' = [path |-> path, assets |-> asset_list, supplied |-> supplied,
                corr |-> corr]
    /\ ctor_err' = built.err
    /\ heap' = built.assets
    /\ assets' = [i \in 1..Len(built.assets) |-> i]
    /\ num_assets' = built.num_assets
    /\ correlation_matrix' = built.correlation_matrix

NoCtor == [path |-> "none", assets |-> <<>>, supplied |-> None, corr |-> None]
NoCfg == [called |-> FALSE]

\* ----------------------------------------------- inputs of construction
\* Weights around the tolerance of the weight-sum check and around the
\* ends of [0, 1].
FirstWeights ==
    {-1, 0, ONE \div 2 - 10015, ONE \div 2 - 10005, ONE \div 2,
     ONE \div 2 + 9995, ONE \div 2 + 10005, ONE \div 2 + 10015,
     ONE - 10015, ONE - 10005, ONE, ONE + 1}
RestWeights == {0, ONE \div 4, ONE \div 2, ONE + 1}

\* The weight of each asset but the first in a portfolio of n assets whose
\* first weight is one half.
EvenRest(n) == IF n > 1 THEN ONE \div (2 * (n - 1)) ELSE 0
EvenFirst(n) == IF n > 1 THEN ONE \div 2 ELSE ONE

AssetList(n, price, mu, w1, wr, v1, vr) ==
    [i \in 1..n |-> NewAsset(Symbols[i], price, mu,
                             IF i = 1 THEN v1 ELSE vr,
                             IF i = 1 THEN w1 ELSE wr)]

\* An r x c matrix with d on the diagonal (dl in the last row), u above it
\* and l below it.
Matrix(r, c, d, dl, u, l) ==
    [i \in 1..r |-> [j \in 1..c |->
        IF i = j THEN (IF i = r THEN dl ELSE d)
        ELSE IF i < j THEN u ELSE l]]

Matrices ==
    {Matrix(r, c, d, dl, u, l) :
        r \in 1..MaxAssets, c \in 1..MaxAssets,
        d \in {CorrOne, CorrOne + 1}, dl \in {0, CorrOne - 1, CorrOne},
        u \in {-4, -2, 0, 3, 4, 6}, l \in {-4, -2, 0, 3, 4, 6}}

\* Sequences over S of length at most n.
RECURSIVE SeqsUpTo(_, _)
SeqsUpTo(S, n) ==
    IF n = 0 THEN {<<>>}
    ELSE LET shorter == SeqsUpTo(S, n - 1)
         IN  shorter \cup {Append(q, x) : q \in shorter, x \in S}

LevelValues == {-50, 0, 1, 500, 950, 999, 1000, 1500}

\* ------------------------------------------------------------ construction
\* The caller builds the AssetParameters and calls MonteCarloVaR(assets, corr).
ConstructDirect ==
    /\ ctor.path = "none"
    /\ ~cfg.called
    /\ \E n \in 0..MaxAssets : \E w1 \in FirstWeights, wr \in RestWeights,
          v1 \in {-1, 0, 2}, vr \in {-1, 3}, price \in {150}, mu \in {1} :
          \E corr \in {None, Some(Eye(n)), Some(Eye(1))} :
             LET asset_list == AssetList(n, price, mu, w1, wr, v1, vr)
             IN  Constructed("direct", asset_list, corr, corr,
                             BuildModel(asset_list, corr))
    /\ UNCHANGED <<webVars, cfg, callVars>>

\* MonteCarloVaR.from_data(asset_names, weights, expected_returns,
\* volatilities, correlation_matrix) with arrays of one length.
ConstructFromData ==
    /\ ctor.path = "none"
    /\ ~cfg.called
    /\ \E n \in 1..MaxAssets : \E w1 \in {0, ONE + 1, EvenFirst(n)},
          v1 \in {-1, 2}, mu \in {-1, 1} :
          \E corr \in {None, Some(Scalar)} \cup {Some(m) : m \in Matrices} :
             LET asset_list == AssetList(n, DummyPrice, mu, w1, EvenRest(n), v1, 3)
             IN  Constructed("from_data", asset_list, corr, corr,
                             FromData([i \in 1..n |-> Symbols[i]],
                                      [i \in 1..n |-> asset_list[i].weight],
                                      [i \in 1..n |-> asset_list[i].expected_return],
                                      [i \in 1..n |-> asset_list[i].volatility],
                                      corr))
    /\ UNCHANGED <<webVars, cfg, callVars>>

\* MonteCarloVaR.from_historical_data(asset_names, weights, returns_matrix,
\* correlation_matrix) on two observations.
ConstructFromHistoricalData ==
    /\ ctor.path = "none"
    /\ ~cfg.called
    /\ \E n \in 1..MaxAssets :
       \E w1 \in {-1, 0, ONE + 1, EvenFirst(n), EvenFirst(n) - 10005,
                   EvenFirst(n) - 10015},
          a1 \in {-2, 0, 1}, a2 \in {-2, 0, 1}, b1 \in {-2, 0, 1}, b2 \in {-2, 0, 1} :
          \E corr \in {None, Some(Eye(n))} :
             LET returns_matrix == <<[j \in 1..n |-> IF j = 1 THEN a1 ELSE b1],
                                     [j \in 1..n |-> IF j = 1 THEN a2 ELSE b2]>>
                 weights == [i \in 1..n |-> IF i = 1 THEN w1 ELSE EvenRest(n)]
                 asset_list ==
                     [i \in 1..n |->
                         NewAsset(Symbols[i], DummyPrice,
                                  AnnualisedMean(Column(returns_matrix, i)),
                                  AnnualisedStd(Column(returns_matrix, i)),
                                  weights[i])]
                 passed == IF corr = None THEN Some(CorrCoef(returns_matrix))
                           ELSE corr
             IN  Constructed("from_historical_data", asset_list, corr, passed,
                             FromHistoricalData([i \in 1..n |-> Symbols[i]],
                                                weights, returns_matrix, corr))
    /\ UNCHANGED <<webVars, cfg, callVars>>

\* SimulationConfig(num_simulations, time_horizon, confidence_levels,
\* random_seed), confidence_levels and random_seed possibly omitted.
ConstructConfig ==
    /\ ctor.path = "none"
    /\ ~cfg.called
    /\ \E ns \in {-1, 0, 1, 10000}, th \in {-1, 0, 1, 252},
          levels \in {None} \cup {Some(q) : q \in SeqsUpTo(LevelValues, MaxLevels)},
          seed \in {None, Some(42)} :
          cfg' = [called |-> TRUE, listed |-> levels,
                  config |-> SimulationConfig(ns, th, levels, seed)]
    /\ UNCHANGED <<webVars, modelVars, callVars>>

NoFrame == [op |-> "none"]
NoResult == [kind |-> "none"]

\* No application module has been executed yet.
NoApp == [module |-> "none", step |-> 0, routes |-> <<>>]

\* DataProcessor.__init__: nothing is loaded.
NewProcessor ==
    [portfolio_weights |-> None, historical_returns |-> None, assets |-> None]

NoReply == [to |-> "none"]

\* No application, a new DataProcessor, nothing answered yet.
InitWeb ==
    /\ app = NoApp
    /\ processor = NewProcessor
    /\ reply = NoReply

InitCalls ==
    /\ rng = Seeded(0)
    /\ config = [t \in Threads |-> None]
    /\ pc = [t \in Threads |-> "idle"]
    /\ frame = [t \in Threads |-> NoFrame]
    /\ result = [t \in Threads |-> NoResult]

InitNew ==
    /\ ctor = NoCtor
    /\ ctor_err = "ok"
    /\ heap = <<>>
    /\ assets = <<>>
    /\ num_assets = 0
    /\ correlation_matrix = <<>>
    /\ cfg = NoCfg
    /\ InitCalls
    /\ InitWeb

NextCtor ==
    \/ ConstructDirect
    \/ ConstructFromData
    \/ ConstructFromHistoricalData
    \/ ConstructConfig

\* Construction of models and configurations, one call from a fresh start.
SpecCtor == InitNew /\ [][NextCtor]_vars

\* ------------------------------------------------------- calls of a caller
\* Largest |volatility| and |expected_return| (in parameter units) the
\* stress scenarios of a call may drive the assets to, and the longest
\* scenario dictionary.
MaxVol == 6
MaxMu == 2
MaxScenarios == 2

Exception(op, name) == [kind |-> "exception", op |-> op, name |-> name]

\* The arguments the callers of the kernel build their configurations from:
\* <<num_simulations, time_horizon, confidence_levels, random_seed>>.
KernelConfigs ==
    {<<2, 1, None, Some(42)>>,
     <<2, 1, Some(<<950, 500, 950>>), None>>,
     <<1, 4, Some(<<950>>), Some(1)>>,
     <<0, 1, Some(<<950>>), Some(42)>>,
     <<2, 0, Some(<<950>>), Some(1)>>,
     <<2, -1, Some(<<950>>), Some(42)>>,
     <<2, 1, Some(<<950, 1000>>), Some(1)>>}

ConcurrentConfigs ==
    {<<2, 1, Some(<<950>>), Some(1)>>,
     <<2, 1, Some(<<950>>), Some(42)>>,
     <<1, 1, Some(<<500>>), Some(42)>>}

\* The caller builds a SimulationConfig: it holds the config, or the
\* constructor raised.  What its previous call left behind is dropped.
NewConfig(t, Args) ==
    /\ pc[t] = "idle"
    /\ \E a \in Args :
          LET c == SimulationConfig(a[1], a[2], a[3], a[4])
          IN  IF c.err = "ok"
              THEN /\ config' = [config EXCEPT ![t] = Some(c)]
                   /\ result' = [result EXCEPT ![t] = NoResult]
              ELSE /\ config' = [config EXCEPT ![t] = None]
                   /\ result' = [result EXCEPT ![t] = Exception("SimulationConfig", c.err)]
    /\ frame' = [frame EXCEPT ![t] = NoFrame]
    /\ UNCHANGED <<webVars, modelVars, cfg, rng, pc>>

\* The AssetParameters self.assets refers to, in order.
AssetObjects == [i \in 1..Len(assets) |-> heap[assets[i]]]

NewFrame(op, process, scenarios) ==
    [op |-> op, process |-> process,
     chol_matrix |-> <<>>, random_numbers |-> <<>>, portfolio_returns |-> <<>>,
     stress_scenarios |-> scenarios, k |-> 0, original_assets |-> <<>>,
     results |-> <<>>,
     entry_heap |-> heap, entry_assets |-> AssetObjects,
     entry_correlation_matrix |-> correlation_matrix]

\* An exception leaves the call: nothing on the way handles it.
Raise(t, name) ==
    /\ pc' = [pc EXCEPT ![t] = "idle"]
    /\ result' = [result EXCEPT ![t] = Exception(frame[t].op, name)]

\* calculate_var(config, process=...) is entered.
CallCalculateVar(t) ==
    /\ pc[t] = "idle"
    /\ config[t] # None
    /\ \E process \in Processes :
          frame' = [frame EXCEPT ![t] = NewFrame("calculate_var", process, <<>>)]
    /\ pc' = [pc EXCEPT ![t] = "seed"]
    /\ result' = [result EXCEPT ![t] = NoResult]
    /\ UNCHANGED <<webVars, modelVars, cfg, rng, config>>

\* Mutant: the generator is seeded only while it is in its initial state.
SeedStateOnlyOnce(seed) ==
    IF seed # None /\ rng.seed = 0 THEN Seeded(The(seed)) ELSE rng

\* simulate_portfolio_returns, lines 232-233: np.random.seed(random_seed)
\* when a seed is given.
SeedState(seed) ==
    IF seed # None THEN Seeded(The(seed)) ELSE rng

SimSeed(t) ==
    /\ pc[t] = "seed"
    /\ rng' = SeedState(The(config[t]).random_seed)
    /\ pc' = [pc EXCEPT ![t] = "draw"]
    /\ UNCHANGED <<webVars, modelVars, cfg, config, frame, result>>

\* simulate_portfolio_returns, lines 238-243: dt and
\* _generate_correlated_randoms.  1.0 / 0 raises ZeroDivisionError;
\* np.random.normal raises ValueError for a negative dimension.
SimDraw(t) ==
    LET c == The(config[t])
        count == num_assets * c.num_simulations * c.time_horizon
    IN  /\ pc[t] = "draw"
        /\ IF c.time_horizon = 0
           THEN Raise(t, "ZeroDivisionError") /\ UNCHANGED <<rng, frame>>
           ELSE IF c.num_simulations < 0 \/ c.time_horizon < 0
           THEN Raise(t, "ValueError") /\ UNCHANGED <<rng, frame>>
           ELSE /\ \E chol_matrix \in {CorrelationTransform(correlation_matrix)} :
                      frame' = [frame EXCEPT
                          ![t].chol_matrix = chol_matrix,
                          ![t].random_numbers =
                              CorrelatedRandoms(chol_matrix, DrawNormals(rng, count),
                                                num_assets, c.num_simulations,
                                                c.time_horizon)]
                /\ rng' = Advance(rng, count)
                /\ pc' = [pc EXCEPT ![t] = "assets"]
                /\ UNCHANGED result
        /\ UNCHANGED <<webVars, modelVars, cfg, config>>

\* Mutant: the simulation writes the drift it computed back to the asset.
SimulationLeavesModelDrifted ==
    /\ heap' = [r \in DOMAIN heap |->
                   [heap[r] EXCEPT !.expected_return =
                       heap[r].expected_return - heap[r].volatility * heap[r].volatility]]
    /\ UNCHANGED <<ctor, ctor_err, assets, num_assets, correlation_matrix>>

\* What simulate_portfolio_returns and calculate_var write to the model:
\* nothing (they read self.assets and self.correlation_matrix).
SimulationLeavesModel == UNCHANGED modelVars

\* simulate_portfolio_returns, lines 245-264: the loop over the assets.
SimAssets(t) ==
    LET c == The(config[t])
    IN  /\ pc[t] = "assets"
        /\ IF frame[t].process \notin {"gbm", "mean_reversion"} /\ Len(assets) > 0
           THEN Raise(t, "NotImplementedError") /\ UNCHANGED frame
           ELSE /\ frame' = [frame EXCEPT ![t].portfolio_returns =
                       PortfolioReturns(AssetObjects, frame[t].random_numbers,
                                        frame[t].process, TimeStep(c.time_horizon),
                                        c.num_simulations, c.time_horizon)]
                /\ pc' = [pc EXCEPT ![t] = "metrics"]
                /\ UNCHANGED result
        /\ SimulationLeavesModel
        /\ UNCHANGED <<webVars, cfg, rng, config>>

\* Mutant: the object handed to the caller is the one every earlier caller
\* of the same operation was handed.
ReturnShared(t, value) ==
    [u \in Threads |->
        IF u = t \/ result[u].kind = value.kind THEN value ELSE result[u]]

\* `return VaRResults(...)` (line 396) and `return results` (line 436): the
\* caller is handed an object built during this call.
Return(t, value) == [result EXCEPT ![t] = value]

\* calculate_var, lines 361-402.  On an empty return vector the percentile
\* (IndexError) or the minimum (ValueError) raises, as the numpy at hand
\* has it.  Inside stress_test the result is stored under the scenario name.
SimMetrics(t) ==
    LET c == The(config[t])
        returns == frame[t].portfolio_returns
    IN  /\ pc[t] = "metrics"
        /\ IF Len(returns) = 0
           THEN (\E e \in {"IndexError", "ValueError"} : Raise(t, e)) /\ UNCHANGED frame
           ELSE IF frame[t].op = "calculate_var"
           THEN /\ result' = Return(t, VaRResults(returns, c))
                /\ pc' = [pc EXCEPT ![t] = "idle"]
                /\ UNCHANGED frame
           ELSE /\ frame' = [frame EXCEPT ![t].results =
                       Append(@, <<frame[t].stress_scenarios[frame[t].k].name,
                                   VaRResults(returns, c)>>)]
                /\ pc' = [pc EXCEPT ![t] = "restore"]
                /\ UNCHANGED result
        /\ SimulationLeavesModel
        /\ UNCHANGED <<webVars, cfg, rng, config>>


\* ------------------------------------------------------------ stress_test
\* A modification dictionary with the given entries (each an option).
Modification(volatility_multiplier, return_shift, unknown) ==
    LET keys == (IF volatility_multiplier # None THEN {"volatility_multiplier"} ELSE {})
                \cup (IF return_shift # None THEN {"return_shift"} ELSE {})
                \cup (IF unknown # None THEN {"liquidity_haircut"} ELSE {})
    IN  [key \in keys |->
            IF key = "volatility_multiplier" THEN The(volatility_multiplier)
            ELSE IF key = "return_shift" THEN The(return_shift)
            ELSE The(unknown)]

Modifications ==
    {Modification(Some(2), Some(-1), None),
     Modification(Some(-1), None, None),
     Modification(None, Some(1), Some(7))}

ScenarioNames == <<"Market Crash", "High Volatility", "Rally", "Freeze", "Thaw">>

\* The scenario dictionaries of at most n entries with modifications from M,
\* as the sequence of their items in insertion order.
RECURSIVE ScenarioListsOver(_, _)
ScenarioListsOver(M, n) ==
    IF n = 0 THEN {<<>>}
    ELSE LET shorter == ScenarioListsOver(M, n - 1)
         IN  shorter \cup
             {Append(q, [name |-> ScenarioNames[Len(q) + 1], modifications |-> m]) :
                 q \in {x \in shorter : Len(x) = n - 1}, m \in M}

ScenarioLists(n) == ScenarioListsOver(Modifications, n)

\* Every combination of a volatility multiplier, a return shift and a key
\* stress_test does not know, the empty dictionary included.
KeyModifications ==
    {Modification(vm, rs, other) :
        vm \in {None, Some(2)}, rs \in {None, Some(1)}, other \in {None, Some(7)}}

\* The most the scenarios can scale a volatility by, and shift a return by,
\* if nothing is ever restored.
RECURSIVE Scaling(_)
Scaling(scenarios) ==
    IF Len(scenarios) = 0 THEN 1
    ELSE (IF "volatility_multiplier" \in DOMAIN scenarios[1].modifications
             /\ Abs(scenarios[1].modifications["volatility_multiplier"]) > 1
          THEN Abs(scenarios[1].modifications["volatility_multiplier"]) ELSE 1)
         * Scaling(Tail(scenarios))
RECURSIVE Shifting(_)
Shifting(scenarios) ==
    IF Len(scenarios) = 0 THEN 0
    ELSE (IF "return_shift" \in DOMAIN scenarios[1].modifications
          THEN Abs(scenarios[1].modifications["return_shift"]) ELSE 0)
         + Shifting(Tail(scenarios))

\* stress_test(stress_scenarios, config) is entered; line 418:
\* original_assets is a new list of the objects self.assets refers to.
StressTestCalled(t, scenario_lists) ==
    /\ pc[t] = "idle"
    /\ config[t] # None
    /\ \E scenarios \in scenario_lists :
          /\ \A r \in DOMAIN heap :
                /\ Abs(heap[r].volatility) * Scaling(scenarios) <= MaxVol
                /\ Abs(heap[r].expected_return) + Shifting(scenarios) <= MaxMu
          /\ frame' = [frame EXCEPT ![t] =
                 [NewFrame("stress_test", "gbm", scenarios)
                     EXCEPT !.original_assets = assets]]
    /\ pc' = [pc EXCEPT ![t] = "scenario"]
    /\ result' = [result EXCEPT ![t] = NoResult]
    /\ UNCHANGED <<webVars, modelVars, cfg, rng, config>>

CallStressTest(t) == StressTestCalled(t, ScenarioLists(MaxScenarios))

\* stress_test with scenarios of known and unknown keys.
CallStressTestKeys(t) == StressTestCalled(t, ScenarioListsOver(KeyModifications, MaxScenarios))

\* Mutant: the return shift is added to the weight as well.
StressedWrongField(asset, modifications) ==
    [asset EXCEPT
        !.volatility =
            IF "volatility_multiplier" \in DOMAIN modifications
            THEN @ * modifications["volatility_multiplier"] ELSE @,
        !.expected_return =
            IF "return_shift" \in DOMAIN modifications
            THEN @ + modifications["return_shift"] ELSE @,
        !.weight =
            IF "return_shift" \in DOMAIN modifications
            THEN @ + modifications["return_shift"] ELSE @]

\* Mutant: a key that is not return_shift is taken for a multiplier.
StressedAnyKeyScales(asset, modifications) ==
    [asset EXCEPT
        !.volatility =
            IF DOMAIN modifications \ {"return_shift"} # {}
            THEN @ * modifications[CHOOSE key \in DOMAIN modifications \ {"return_shift"} : TRUE]
            ELSE @,
        !.expected_return =
            IF "return_shift" \in DOMAIN modifications
            THEN @ + modifications["return_shift"] ELSE @]

\* Lines 424-428 on one AssetParameters object.
Stressed(asset, modifications) ==
    [asset EXCEPT
        !.volatility =
            IF "volatility_multiplier" \in DOMAIN modifications
            THEN @ * modifications["volatility_multiplier"] ELSE @,
        !.expected_return =
            IF "return_shift" \in DOMAIN modifications
            THEN @ + modifications["return_shift"] ELSE @]

\* The next scenario of the loop: its modifications are applied to the
\* objects self.assets refers to, and calculate_var(config) is called.
StressApply(t) ==
    /\ pc[t] = "scenario"
    /\ frame[t].k < Len(frame[t].stress_scenarios)
    /\ LET modifications == frame[t].stress_scenarios[frame[t].k + 1].modifications
       IN  heap' = [r \in DOMAIN heap |->
                       IF \E i \in 1..Len(assets) : assets[i] = r
                       THEN Stressed(heap[r], modifications) ELSE heap[r]]
    /\ frame' = [frame EXCEPT ![t].k = @ + 1]
    /\ pc' = [pc EXCEPT ![t] = "seed"]
    /\ UNCHANGED <<webVars, ctor, ctor_err, assets, num_assets, correlation_matrix,
                   cfg, rng, config, result>>

\* Line 434: self.assets becomes a new list of the objects original_assets
\* refers to.
StressRestore(t) ==
    /\ pc[t] = "restore"
    /\ assets' = frame[t].original_assets
    /\ pc' = [pc EXCEPT ![t] = "scenario"]
    /\ UNCHANGED <<webVars, ctor, ctor_err, heap, num_assets, correlation_matrix,
                   cfg, rng, config, frame, result>>

\* Line 436: the loop is over and the results are returned.
StressReturn(t) ==
    /\ pc[t] = "scenario"
    /\ frame[t].k = Len(frame[t].stress_scenarios)
    /\ result' = Return(t, [kind |-> "dict", results |-> frame[t].results])
    /\ pc' = [pc EXCEPT ![t] = "idle"]
    /\ UNCHANGED <<webVars, modelVars, cfg, rng, config, frame>>

\* Other code of the process uses np.random between the calls
\* (create_sample_data: np.random.seed(42), np.random.normal).
ForeignDraw ==
    /\ \A t \in Threads : pc[t] = "idle"
    /\ rng' \in {Advance(rng, 1), Seeded(42)}
    /\ rng' # rng
    /\ UNCHANGED <<webVars, modelVars, cfg, config, pc, frame, result>>

\* -------------------------------------------------------- specifications
\* A validly constructed model: one asset without volatility, of weight 1
\* or of the weight 1 - 1.0005e-5 the weight-sum check still accepts, or two
\* assets that are uncorrelated, correlated by one half or fully correlated.
InitModel ==
    \E n \in 1..2 :
    \E corr \in IF n = 1 THEN {None}
                ELSE {None, Some(Matrix(n, n, CorrOne, CorrOne, 2, 2)),
                      Some(Matrix(n, n, CorrOne, CorrOne, 4, 4))} :
    \E w1 \in IF n = 1 THEN {ONE, ONE - 10005} ELSE {EvenFirst(n)} :
       LET asset_list == AssetList(n, 150, 1, w1, EvenRest(n),
                                   IF n = 1 THEN 0 ELSE 2, 3)
           built == BuildModel(asset_list, corr)
       IN  /\ built.err = "ok"
           /\ ctor = [path |-> "direct", assets |-> asset_list,
                      supplied |-> corr, corr |-> corr]
           /\ ctor_err = built.err
           /\ heap = built.assets
           /\ assets = [i \in 1..Len(built.assets) |-> i]
           /\ num_assets = built.num_assets
           /\ correlation_matrix = built.correlation_matrix

Init ==
    /\ InitModel
    /\ cfg = NoCfg
    /\ InitCalls
    /\ InitWeb

Next ==
    \/ NewConfig(1, KernelConfigs)
    \/ CallCalculateVar(1)
    \/ SimSeed(1)
    \/ SimDraw(1)
    \/ SimAssets(1)
    \/ SimMetrics(1)
    \/ CallStressTest(1)
    \/ StressApply(1)
    \/ StressRestore(1)
    \/ StressReturn(1)
    \/ ForeignDraw

\* One caller working on one model: configurations, calculate_var and
\* stress_test calls in any order, other draws from np.random in between.
Spec == Init /\ [][Next]_vars

NextConcurrent ==
    \E t \in Threads :
        \/ NewConfig(t, ConcurrentConfigs)
        \/ CallCalculateVar(t)
        \/ SimSeed(t)
        \/ SimDraw(t)
        \/ SimAssets(t)
        \/ SimMetrics(t)

\* Two threads calling calculate_var with seeded configurations.
SpecConcurrent == Init /\ [][NextConcurrent]_vars

\* The configuration of the stress tests on the keys of a scenario.
KeyConfigs == {<<2, 1, Some(<<950>>), Some(42)>>}

NextKeys ==
    \/ NewConfig(1, KeyConfigs)
    \/ CallStressTestKeys(1)
    \/ StressApply(1)
    \/ SimSeed(1)
    \/ SimDraw(1)
    \/ SimAssets(1)
    \/ SimMetrics(1)
    \/ StressRestore(1)
    \/ StressReturn(1)

\* One caller stress-testing one model with scenarios whose dictionaries
\* hold any combination of known and unknown keys.
SpecKeys == Init /\ [][NextKeys]_vars

\* The configurations of a caller that keeps the results of its calls.
HeldConfigs == {<<2, 1, Some(<<950>>), Some(42)>>}

\* The modifications of its stress scenarios.
HeldModifications ==
    {Modification(Some(2), Some(-1), None), Modification(None, Some(1), None)}

\* stress_test with these scenarios.
CallStressTestHeld(t) ==
    StressTestCalled(t, ScenarioListsOver(HeldModifications, MaxScenarios))

\* No call of another holder is under way.
OthersIdle(t) == \A u \in Threads \ {t} : pc[u] = "idle"

NextHeld ==
    \E t \in Threads :
        /\ OthersIdle(t)
        /\ \/ NewConfig(t, HeldConfigs)
           \/ CallCalculateVar(t)
           \/ SimSeed(t)
           \/ SimDraw(t)
           \/ SimAssets(t)
           \/ SimMetrics(t)
           \/ CallStressTestHeld(t)
           \/ StressApply(t)
           \/ StressRestore(t)
           \/ StressReturn(t)

\* One program that makes its calls one after the other and keeps what two
\* of them returned: each of the two places holds the result of the last
\* call made for it.
SpecHeld == Init /\ [][NextHeld]_vars


\* Longest return vector the metrics of calculate_var are computed on alone.
MaxPaths == 3

\* Portfolio returns (in units of 1/PortOne) with ties, gains and losses,
\* and lists of confidence levels in any order and with repetitions.
ReturnValues == {-2, -1, 0, 1, 3}
ReturnVectors == SeqsUpTo(ReturnValues, MaxPaths)
LevelLists == SeqsUpTo({1, 500, 950, 999}, MaxLevels)

\* calculate_var at line 361, the simulation having returned some vector of
\* num_simulations portfolio returns.
InitMetrics ==
    /\ InitModel
    /\ InitWeb
    /\ num_assets = 1
    /\ heap[1].weight = ONE
    /\ cfg = NoCfg
    /\ rng = Seeded(0)
    /\ result = [t \in Threads |-> NoResult]
    /\ \E returns \in ReturnVectors, levels \in LevelLists :
          /\ config = [t \in Threads |->
                IF t = 1
                THEN Some(SimulationConfig(Len(returns), 1, Some(levels), None))
                ELSE None]
          /\ pc = [t \in Threads |-> IF t = 1 THEN "metrics" ELSE "idle"]
          /\ frame = [t \in Threads |->
                IF t = 1
                THEN [NewFrame("calculate_var", "gbm", <<>>)
                         EXCEPT !.portfolio_returns = returns]
                ELSE NoFrame]

NextMetrics == SimMetrics(1)

\* The metrics of calculate_var on every small return vector.
SpecMetrics == InitMetrics /\ [][NextMetrics]_vars

\* ------------------------------------------------ POST /monte_carlo_var
\* The defaults of MonteCarloRequest.
DefaultRequestLevels == <<950, 990>>
DefaultNumSimulations == 10000
DefaultTimeHorizon == 1

\* A MonteCarloRequest pydantic has accepted: the optional fields are
\* options, and the defaults stand in for those left out.
MonteCarloRequest(asset_names, weights, historical_returns, confidence_levels, num_simulations, time_horizon, corr_matrix) ==
    [assets |-> asset_names,
     weights |-> weights,
     historical_returns |-> historical_returns,
     confidence_levels |-> IF confidence_levels = None THEN DefaultRequestLevels
                           ELSE The(confidence_levels),
     num_simulations |-> IF num_simulations = None THEN DefaultNumSimulations
                         ELSE The(num_simulations),
     time_horizon |-> IF time_horizon = None THEN DefaultTimeHorizon
                      ELSE The(time_horizon),
     correlation_matrix |-> corr_matrix]

\* A body pydantic rejects (a required field is missing).
Malformed == [malformed |-> TRUE]

\* np.isclose(sum(weights), 1.0, rtol=0.01) with the default atol=1e-8:
\* |total - 1| <= 1e-8 + 0.01, in weight units.
ApiWeightsSumToOne(total) ==
    Abs(total - ONE) <= (ONE \div 10^8) + (ONE \div 10^2)

\* validate_api_request(request_data) on the dictionary the endpoint builds,
\* which holds the three required fields as lists.
ValidateApiRequest(request_data) ==
    IF Len(request_data.weights) = 0
    THEN [ok |-> FALSE, msg |-> "Weights must be a non-empty list"]
    ELSE IF ~ApiWeightsSumToOne(SumSeq(request_data.weights))
    THEN [ok |-> FALSE, msg |-> "Weights must sum to 1.0"]
    ELSE IF Len(request_data.historical_returns) = 0
    THEN [ok |-> FALSE, msg |-> "Historical returns must be a non-empty list"]
    ELSE [ok |-> TRUE, msg |-> "Valid"]

\* What leaves a block of the endpoint: an HTTPException, another exception,
\* or the value it returns.
HttpException(status_code, detail) ==
    [kind |-> "HTTPException", status_code |-> status_code, detail |-> detail]
Raised(name) == [kind |-> "exception", name |-> name]
Returns(value) == [kind |-> "return", value |-> value]

\* mc_var.calculate_var(config) in one piece, from np.random.seed(42) on:
\* the exception it raises or the VaRResults it returns.
CalculateVarSeeded(asset_objects, corr, n, c) ==
    IF c.time_horizon = 0 THEN Raised("ZeroDivisionError")
    ELSE IF c.num_simulations < 0 \/ c.time_horizon < 0 THEN Raised("ValueError")
    ELSE IF c.num_simulations = 0 THEN Raised("IndexError")
    ELSE LET count == n * c.num_simulations * c.time_horizon
             outcomes ==
                 {VaRResults(returns, c) :
                     returns \in
                         {PortfolioReturns(asset_objects, random_numbers, "gbm",
                                           TimeStep(c.time_horizon),
                                           c.num_simulations, c.time_horizon) :
                             random_numbers \in
                                 {CorrelatedRandoms(chol_matrix, draws, n,
                                                    c.num_simulations, c.time_horizon) :
                                     chol_matrix \in {CorrelationTransform(corr)},
                                     draws \in {DrawNormals(Seeded(42), count)}}}}
         IN  Returns(CHOOSE outcome \in outcomes : TRUE)

\* The assumed portfolio value of the dollar figures, and the unit they are
\* counted in: a VaR of v units of 1/(PortOne * LevelOne) is v * 10^6 /
\* (PortOne * LevelOne) dollars.
PortfolioValue == 10^6
DollarUnit == 10^6

\* Lines 120-135: one dictionary per requested level, in request order.
FormatVarResults(levels, results) ==
    [i \in 1..Len(levels) |->
        [confidence_level |-> levels[i],
         var_value |-> results.var_estimates[levels[i]],
         cvar_value |-> results.cvar_estimates[levels[i]],
         percentile |-> results.percentiles[levels[i]],
         var_dollar |-> results.var_estimates[levels[i]] * (PortfolioValue \div DollarUnit),
         cvar_dollar |->
             [num |-> results.cvar_estimates[levels[i]].num * (PortfolioValue \div DollarUnit),
              den |-> results.cvar_estimates[levels[i]].den]]]

\* The try block of calculate_monte_carlo_var, lines 64-150.
TryCalculateMonteCarloVar(request) ==
    LET validation == ValidateApiRequest([weights |-> request.weights,
                                          historical_returns |-> request.historical_returns,
                                          assets |-> request.assets])
        n == Len(request.assets)
        returns_matrix == request.historical_returns
        corr == IF request.correlation_matrix # None
                   /\ Len(The(request.correlation_matrix)) > 0
                THEN request.correlation_matrix
                ELSE Some(CorrCoef(returns_matrix))
        built == FromHistoricalData(request.assets, request.weights,
                                    returns_matrix, corr)
        sim_config == SimulationConfig(request.num_simulations, request.time_horizon,
                                   Some(request.confidence_levels), Some(42))
        calculated == CalculateVarSeeded(built.assets, built.correlation_matrix,
                                         built.num_assets, sim_config)
    IN  IF ~validation.ok THEN HttpException(400, validation.msg)
        ELSE IF Len(request.weights) # n
        THEN HttpException(400, "Number of weights must match number of assets")
        ELSE IF Len(returns_matrix[1]) # n
        THEN HttpException(400, "Returns matrix columns must match number of assets")
        ELSE IF built.err # "ok" THEN Raised(built.err)
        ELSE IF sim_config.err # "ok" THEN Raised(sim_config.err)
        ELSE IF calculated.kind # "return" THEN calculated
        ELSE Returns(
                [portfolio_id |-> "uploaded_portfolio",
                 method |-> "monte_carlo",
                 assets |-> request.assets,
                 weights |-> request.weights,
                 var_results |-> FormatVarResults(request.confidence_levels,
                                                  calculated.value),
                 portfolio_statistics |-> calculated.value.statistics,
                 simulation_parameters |->
                     [num_simulations |-> sim_config.num_simulations,
                      time_horizon |-> sim_config.time_horizon,
                      observations_used |-> Len(returns_matrix)]])

\* An HTTP response.
Response(status, content) == [status |-> status, content |-> content]

\* calculate_monte_carlo_var(request): `except Exception` (lines 152-154)
\* catches whatever the try block raises, its HTTPException(400) included,
\* and raises HTTPException(500).
CalculateMonteCarloVar(request) ==
    LET left == TryCalculateMonteCarloVar(request)
    IN  IF left.kind = "return" THEN Response(200, left.value)
        ELSE Response(500, [detail |-> "VaR calculation failed"])

\* The generator after the request: seeded and drawn from when the endpoint
\* got as far as the simulation.
RngAfterRequest(request) ==
    LET left == TryCalculateMonteCarloVar(request)
    IN  IF left.kind = "return"
        THEN Advance(Seeded(42), Len(request.assets) * request.num_simulations
                                    * request.time_horizon)
        ELSE rng

\* The inline endpoint of simple_main (lines 79-147): whatever the
\* calculation raises is caught and returned as {"error": ...}, so the
\* status is 200 either way.  np.dot raises when the columns are not as many
\* as the weights, and np.random.multivariate_normal when the covariance is
\* not a square matrix (no or one observation, a single asset) or the
\* number of simulations is negative.
FallbackGoesThrough(request) ==
    /\ Len(request.historical_returns) >= 2
    /\ Len(request.weights) >= 2
    /\ Len(request.historical_returns[1]) = Len(request.weights)
    /\ request.num_simulations >= 0

\* The responses it can give: np.percentile of no returns at all raises or
\* yields nan, depending on the numpy installed.
FallbackCalculateMonteCarloVar(request) ==
    IF FallbackGoesThrough(request)
    THEN {Response(200,
            [var_results |->
                 [i \in 1..Len(request.confidence_levels) |->
                     [confidence_level |-> request.confidence_levels[i],
                      var_value |-> "number", var_dollar |-> "number",
                      cvar_value |-> "number", cvar_dollar |-> "number"]],
             portfolio_statistics |-> "statistics",
             simulation_parameters |->
                 [num_simulations |-> request.num_simulations,
                  time_horizon |-> request.time_horizon,
                  assets |-> request.assets]])}
         \cup (IF request.num_simulations = 0
               THEN {Response(200, [error |-> "exception"])} ELSE {})
    ELSE {Response(200, [error |-> "exception"])}

\* ------------------------------------------------------ the applications
\* A route: the method and path it serves and the function registered.
Route(method, path, endpoint) ==
    [method |-> method, path |-> path, endpoint |-> endpoint]

\* The routes of each APIRouter, in the order of their decorators, under a
\* prefix.
MonteCarloRouter ==
    <<Route("POST", "/monte_carlo_var", "monte_carlo_api.calculate_monte_carlo_var"),
      Route("POST", "/upload_csv_var", "monte_carlo_api.calculate_var_from_csv"),
      Route("GET", "/sample_data", "monte_carlo_api.get_sample_data"),
      Route("GET", "/validate_data", "monte_carlo_api.validate_portfolio_data"),
      Route("GET", "/health", "monte_carlo_api.health_check")>>

PortfolioRouter ==
    <<Route("GET", "/api/v1/portfolio/", "portfolio.get_portfolios"),
      Route("GET", "/api/v1/portfolio/{portfolio_id}", "portfolio.get_portfolio"),
      Route("POST", "/api/v1/portfolio/", "portfolio.create_portfolio"),
      Route("PUT", "/api/v1/portfolio/{portfolio_id}", "portfolio.update_portfolio")>>

RiskAnalysisRouter ==
    <<Route("POST", "/api/v1/risk/var", "risk_analysis.calculate_var"),
      Route("POST", "/api/v1/risk/monte-carlo", "risk_analysis.run_monte_carlo_simulation"),
      Route("POST", "/api/v1/risk/stress-test", "risk_analysis.run_stress_test"),
      Route("GET", "/api/v1/risk/health", "risk_analysis.health_check")>>

MarketDataRouter ==
    <<Route("GET", "/api/v1/market/prices", "market_data.get_current_prices"),
      Route("GET", "/api/v1/market/historical", "market_data.get_historical_data")>>

\* The statements of a module that add routes to its app, in source order:
\* a decorator adds one route, include_router adds the router's routes.
Decorator(route) == [kind |-> "decorator", routes |-> <<route>>]
IncludeRouter(routes) == [kind |-> "include_router", routes |-> routes]

\* simple_main.py: the three decorators of lines 28-54, then the try block
\* of lines 58-62 and, when its import fails, the inline endpoint of line 79.
SimpleMainProgram(imported) ==
    <<Decorator(Route("GET", "/", "simple_main.root")),
      Decorator(Route("GET", "/health", "simple_main.health_check")),
      Decorator(Route("GET", "/sample_data", "simple_main.get_sample_data")),
      IF imported
      THEN IncludeRouter(MonteCarloRouter)
      ELSE Decorator(Route("POST", "/monte_carlo_var",
                           "simple_main.calculate_monte_carlo_var"))>>

\* backend/app/main.py: the four include_router calls of lines 46-49, then
\* the three decorators of lines 51-79.
MainProgram ==
    <<IncludeRouter(PortfolioRouter),
      IncludeRouter(RiskAnalysisRouter),
      IncludeRouter(MarketDataRouter),
      IncludeRouter(MonteCarloRouter),
      Decorator(Route("GET", "/", "main.root")),
      Decorator(Route("GET", "/health", "main.health_check")),
      Decorator(Route("GET", "/sample_data", "main.get_sample_data"))>>

Program(module) ==
    IF module = "simple_main" THEN SimpleMainProgram(TRUE)
    ELSE IF module = "simple_main without backend" THEN SimpleMainProgram(FALSE)
    ELSE IF module = "main" THEN MainProgram
    ELSE <<>>

\* The module has run to its end: its app is ready to serve.
Loaded == app.module # "none" /\ app.step = Len(Program(app.module))

\* A module starts to run: `app = FastAPI(...)`.  Whether simple_main can
\* import the backend package is up to the process it runs in.
LoadModule ==
    /\ app.module = "none"
    /\ \E module \in {"simple_main", "simple_main without backend", "main"} :
          app' = [module |-> module, step |-> 0, routes |-> <<>>]
    /\ UNCHANGED <<modelVars, cfg, callVars, processor, reply>>

\* Mutant: a route added later is put in front of those added before.
AddRoutesInFront(routes, added) == added \o routes

\* Router.add_api_route: the routes are appended to app.router.routes.
AddRoutes(routes, added) == routes \o added

\* The next @app.get / @app.post of the module is executed.
ExecuteDecorator ==
    /\ app.module # "none"
    /\ app.step < Len(Program(app.module))
    /\ Program(app.module)[app.step + 1].kind = "decorator"
    /\ app' = [app EXCEPT !.step = @ + 1,
                          !.routes = AddRoutes(@, Program(app.module)[app.step + 1].routes)]
    /\ UNCHANGED <<modelVars, cfg, callVars, processor, reply>>

\* The next app.include_router(...) of the module is executed.
ExecuteIncludeRouter ==
    /\ app.module # "none"
    /\ app.step < Len(Program(app.module))
    /\ Program(app.module)[app.step + 1].kind = "include_router"
    /\ app' = [app EXCEPT !.step = @ + 1,
                          !.routes = AddRoutes(@, Program(app.module)[app.step + 1].routes)]
    /\ UNCHANGED <<modelVars, cfg, callVars, processor, reply>>

\* The routes whose path matches, and those whose method matches too.
PathMatches(routes, path) == {i \in 1..Len(routes) : routes[i].path = path}
FullMatches(routes, method, path) ==
    {i \in PathMatches(routes, path) : routes[i].method = method}

Min(S) == CHOOSE x \in S : \A y \in S : x <= y

\* Router.__call__: the first route that matches path and method serves the
\* request; "405" when only the path matches, "404" when nothing does.
Dispatch(routes, method, path) ==
    IF FullMatches(routes, method, path) # {}
    THEN routes[Min(FullMatches(routes, method, path))].endpoint
    ELSE IF PathMatches(routes, path) # {} THEN "405"
    ELSE "404"

\* What a GET endpoint answers; sample_files tells whether the two CSV files
\* monte_carlo_api.get_sample_data reads are there.
GetResponse(endpoint, sample_files) ==
    IF endpoint \in {"simple_main.health_check", "main.health_check"}
    THEN Response(200, [status |-> "healthy"])
    ELSE IF endpoint = "monte_carlo_api.health_check"
    THEN Response(200, [status |-> "healthy", service |-> "monte_carlo_var_api",
                        timestamp |-> "now", endpoints |-> "list"])
    ELSE IF endpoint \in {"simple_main.get_sample_data", "main.get_sample_data"}
    THEN Response(200, [portfolio_weights |-> "built-in", sample_returns |-> "built-in"])
    ELSE IF endpoint = "monte_carlo_api.get_sample_data"
    THEN (IF sample_files
          THEN Response(200, [portfolio_sample |-> "file", returns_sample |-> "file",
                              total_observations |-> "file", assets |-> "file",
                              description |-> "text"])
          ELSE Response(500, [detail |-> "Could not load sample data"]))
    ELSE IF endpoint \in {"simple_main.root", "main.root"}
    THEN Response(200, [message |-> "text", version |-> "1.0.0", status |-> "running"])
    ELSE IF endpoint = "405" THEN Response(405, [detail |-> "Method Not Allowed"])
    ELSE Response(404, [detail |-> "Not Found"])

\* The paths the clients GET.
GetPaths == {"/", "/health", "/sample_data", "/monte_carlo_var", "/docs-that-are-not-there"}

\* The first request to the app is a GET.
ServeGet ==
    /\ Loaded
    /\ reply = NoReply
    /\ \E path \in GetPaths, sample_files \in BOOLEAN :
          LET endpoint == Dispatch(app.routes, "GET", path)
          IN  reply' = [to |-> "GET", path |-> path, endpoint |-> endpoint,
                        body |-> None,
                        response |-> GetResponse(endpoint, sample_files)]
    /\ UNCHANGED <<modelVars, cfg, callVars, app, processor>>

\* The request bodies of POST /monte_carlo_var.
RequestWeights ==
    {<<>>, <<ONE>>, <<ONE \div 2, ONE \div 2>>,
     <<4 * (ONE \div 5), 4 * (ONE \div 5)>>,
     <<ONE \div 2, ONE \div 2 + ONE \div 200>>,
     <<ONE \div 2, ONE \div 2 + 5000>>,
     <<3 * (ONE \div 2), -(ONE \div 2)>>,
     <<4 * (ONE \div 10), 3 * (ONE \div 10), 3 * (ONE \div 10)>>}

\* Two observations of k assets: the first asset goes up and then further
\* down (or does not move at all), the others go the other way.
RequestReturns ==
    {<<>>} \cup
    {<<[j \in 1..k |-> IF j = 1 THEN first[1] ELSE -1],
       [j \in 1..k |-> IF j = 1 THEN first[2] ELSE 2]>> :
        k \in 1..MaxAssets, first \in {<<1, -2>>, <<1, 1>>}}

RequestBodies ==
    {MonteCarloRequest([i \in 1..n |-> Symbols[i]], weights, historical_returns,
                       confidence_levels, num_simulations, time_horizon, corr_matrix) :
        n \in 0..MaxAssets, weights \in RequestWeights,
        historical_returns \in RequestReturns,
        confidence_levels \in {None, Some(<<990, 950>>), Some(<<950, 950>>),
                               Some(<<1000>>)},
        num_simulations \in {Some(2), Some(0)},
        time_horizon \in {None, Some(2)},
        corr_matrix \in {None, Some(Eye(2))}}

\* The requests of test_monte_carlo_var_validation and
\* test_monte_carlo_var_empty_data, which leave the optional fields out.
TestBodies ==
    {MonteCarloRequest(<<"A", "B">>, <<4 * (ONE \div 5), 4 * (ONE \div 5)>>,
                       <<<<1, -1>>, <<-1, 2>>>>, None, None, None, None),
     MonteCarloRequest(<<>>, <<>>, <<>>, None, None, None, None)}

\* The generator after the inline endpoint: seeded (line 97) unless np.dot
\* raised before, and drawn from when the simulation goes through.
RngAfterFallback(request) ==
    IF FallbackGoesThrough(request)
    THEN Advance(Seeded(42), request.num_simulations * Len(request.weights))
    ELSE IF Len(request.historical_returns) > 0
            /\ Len(request.historical_returns[1]) # Len(request.weights)
    THEN rng
    ELSE Seeded(42)

\* The first request to the app is a POST /monte_carlo_var: it is answered
\* by FastAPI itself (422) when the body does not parse, else by the
\* endpoint the routes lead to.
ServePost ==
    /\ Loaded
    /\ reply = NoReply
    /\ \E body \in RequestBodies \cup TestBodies \cup {Malformed} :
          LET endpoint == Dispatch(app.routes, "POST", "/monte_carlo_var")
              served == endpoint \in {"monte_carlo_api.calculate_monte_carlo_var",
                                      "simple_main.calculate_monte_carlo_var"}
              responses ==
                  IF ~served THEN {GetResponse(endpoint, FALSE)}
                  ELSE IF body = Malformed
                  THEN {Response(422, [detail |-> "validation error"])}
                  ELSE IF endpoint = "monte_carlo_api.calculate_monte_carlo_var"
                  THEN {CalculateMonteCarloVar(body)}
                  ELSE FallbackCalculateMonteCarloVar(body)
          IN  /\ \E response \in responses :
                    reply' = [to |-> "POST", path |-> "/monte_carlo_var",
                              endpoint |-> endpoint, body |-> Some(body),
                              response |-> response]
              /\ rng' = IF body = Malformed \/ ~served THEN rng
                        ELSE IF endpoint = "monte_carlo_api.calculate_monte_carlo_var"
                        THEN RngAfterRequest(body)
                        ELSE RngAfterFallback(body)
    /\ UNCHANGED <<modelVars, cfg, config, pc, frame, result, app, processor>>

NextApp ==
    \/ LoadModule
    \/ ExecuteDecorator
    \/ ExecuteIncludeRouter
    \/ ServeGet
    \/ ServePost

\* An application module is run and its app serves requests.
SpecApp == InitNew /\ [][NextApp]_vars

\* ---------------------------------------------------------- DataProcessor
\* The calls made on one DataProcessor in a behaviour.
MaxCalls == 3

\* Weights of the CSV tables, in thousandths.
CsvOne == 10^3

\* What pd.read_csv cannot read.
Unreadable == [unreadable |-> TRUE]

\* A weights table as pd.read_csv gives it: its column names and, when it
\* has them, the asset column and the weight column with the dtype read_csv
\* chose for it.  A float64 column holds numbers and NaN (the cell was
\* empty), an object column holds strings.
WeightsTable(columns, asset, dtype, weight) ==
    [columns |-> columns, asset |-> asset, dtype |-> dtype, weight |-> weight]

\* The weights CSVs the clients upload.
WeightsCsvs ==
    <<Unreadable,
      WeightsTable({"asset", "amount"}, <<"A", "B">>, "absent", <<>>),
      WeightsTable({"asset", "weight"}, <<>>, "object", <<>>),
      WeightsTable({"asset", "weight"}, <<"A", "B">>, "float64", <<600, 400>>),
      WeightsTable({"asset", "weight"}, <<"A", "B">>, "float64", <<500, 450>>),
      WeightsTable({"asset", "weight"}, <<"A", "B">>, "float64", <<500, 449>>),
      WeightsTable({"asset", "weight"}, <<"A", "B">>, "float64", <<550, 500>>),
      WeightsTable({"asset", "weight"}, <<"A", "B">>, "float64", <<551, 500>>),
      WeightsTable({"asset", "weight"}, <<"A", "B">>, "float64", <<1500, -500>>),
      WeightsTable({"asset", "weight"}, <<"A", "B">>, "object", <<"text", "0.4">>),
      WeightsTable({"asset", "weight"}, <<"A", "C">>, "float64", <<600, 400>>),
      WeightsTable({"asset", "weight"}, <<"A", "B", "C">>, "float64", <<600, 400, NaN>>),
      WeightsTable({"asset", "weight"}, <<"A">>, "float64", <<1000>>)>>

\* A returns table: its date column ("absent", "dates" or "text" that
\* pd.to_datetime cannot parse), the dtype of each other column and the
\* number of rows.
ReturnsTable(date, dtype, observations) ==
    [date |-> date, dtype |-> dtype, observations |-> observations]

\* The returns CSVs the clients upload.
ReturnsCsvs ==
    <<Unreadable,
     ReturnsTable("absent", [a \in {"A", "B"} |-> "float64"], 2),
     ReturnsTable("text", [a \in {"A", "B"} |-> "float64"], 2),
     ReturnsTable("dates", [a \in {"A", "B"} |-> "float64"], 2),
     ReturnsTable("dates", [a \in {"A"} |-> "float64"], 2),
     ReturnsTable("dates", [a \in {"A", "B", "C"} |-> "float64"], 40),
     ReturnsTable("dates", [a \in {"A", "B"} |-> IF a = "A" THEN "float64" ELSE "object"], 2)>>

\* pd.api.types.is_numeric_dtype(df["weight"]).
IsNumericDtype(dtype) == dtype = "float64"

\* Series.sum(): the cells that are NaN are skipped.
RECURSIVE SkipNaSum(_)
SkipNaSum(cells) ==
    IF Len(cells) = 0 THEN 0
    ELSE (IF cells[1] = NaN THEN 0 ELSE cells[1]) + SkipNaSum(Tail(cells))

\* validate_portfolio_weights(df).  `NaN < 0` is False.
ValidatePortfolioWeights(df) ==
    /\ {"asset", "weight"} \subseteq df.columns
    /\ IsNumericDtype(df.dtype)
    /\ 95 * (CsvOne \div 100) <= SkipNaSum(df.weight)
    /\ SkipNaSum(df.weight) <= 105 * (CsvOne \div 100)
    /\ ~\E i \in 1..Len(df.weight) : df.weight[i] # NaN /\ df.weight[i] < 0

\* df["weight"] / df["weight"].sum(): each weight as a fraction of the sum;
\* a fraction whose numerator is NaN is NaN.
Normalised(weight) ==
    [i \in 1..Len(weight) |-> [num |-> weight[i], den |-> SkipNaSum(weight)]]

\* validate_historical_returns(df, portfolio_assets).
ValidateHistoricalReturns(df, portfolio_assets) ==
    /\ df.date # "absent"
    /\ Range(portfolio_assets) \subseteq DOMAIN df.dtype
    /\ \A a \in Range(portfolio_assets) : IsNumericDtype(df.dtype[a])

\* The calls made on the processor so far, each with what it returned.
Calls == IF reply = NoReply THEN <<>> ELSE reply.calls

\* One more call on the processor.
Called(method, argument, returned) ==
    [to |-> "DataProcessor",
     calls |-> Append(Calls, [method |-> method, argument |-> argument,
                              returned |-> returned])]

\* The processor can take another call.
CanCall ==
    /\ reply.to \in {"none", "DataProcessor"}
    /\ Len(Calls) < MaxCalls

\* processor.load_portfolio_weights(csv_content).
LoadPortfolioWeights ==
    /\ CanCall
    /\ \E k \in DOMAIN WeightsCsvs :
          LET df == WeightsCsvs[k] IN
          IF df # Unreadable /\ ValidatePortfolioWeights(df)
          THEN LET stored == [asset |-> df.asset, weight |-> Normalised(df.weight)]
               IN  /\ processor' = [processor EXCEPT
                                       !.portfolio_weights = Some(stored),
                                       !.assets = Some(df.asset)]
                   /\ reply' = Called("load_portfolio_weights", df, Some(stored))
          ELSE /\ processor' = processor
               /\ reply' = Called("load_portfolio_weights", df, None)
    /\ UNCHANGED <<modelVars, cfg, callVars, app>>

\* Mutant: the returns are validated against the assets they hold
\* themselves when no asset list is stored.
ReturnsAcceptedWithoutWeights(p, df) ==
    /\ df # Unreadable
    /\ df.date = "dates"
    /\ ValidateHistoricalReturns(df, IF p.assets = None THEN <<>> ELSE The(p.assets))

\* The test of load_historical_returns, after read_csv and pd.to_datetime
\* went through: `self.assets and self.validate_historical_returns(...)`.
ReturnsAccepted(p, df) ==
    /\ df # Unreadable
    /\ df.date = "dates"
    /\ p.assets # None
    /\ Len(The(p.assets)) > 0
    /\ ValidateHistoricalReturns(df, The(p.assets))

\* processor.load_historical_returns(csv_content).
LoadHistoricalReturns ==
    /\ CanCall
    /\ \E k \in DOMAIN ReturnsCsvs :
          LET df == ReturnsCsvs[k] IN
          IF ReturnsAccepted(processor, df)
          THEN /\ processor' = [processor EXCEPT !.historical_returns = Some(df)]
               /\ reply' = Called("load_historical_returns", df, Some(df))
          ELSE /\ processor' = processor
               /\ reply' = Called("load_historical_returns", df, None)
    /\ UNCHANGED <<modelVars, cfg, callVars, app>>

\* What get_portfolio_data returns on processor p: None when something is
\* not loaded, and None again when self.historical_returns[self.assets]
\* raises KeyError for a column that is not there.
PortfolioData(p) ==
    IF p.portfolio_weights = None \/ p.historical_returns = None THEN None
    ELSE IF ~(Range(The(p.assets)) \subseteq DOMAIN The(p.historical_returns).dtype)
    THEN None
    ELSE Some([assets |-> The(p.assets),
               weights |-> The(p.portfolio_weights).weight,
               num_observations |-> The(p.historical_returns).observations])

\* processor.get_portfolio_data().
GetPortfolioData ==
    /\ CanCall
    /\ reply' = Called("get_portfolio_data", None, PortfolioData(processor))
    /\ UNCHANGED <<modelVars, cfg, callVars, app, processor>>

NextProcessor ==
    \/ LoadPortfolioWeights
    \/ LoadHistoricalReturns
    \/ GetPortfolioData

\* A DataProcessor is made and used.
SpecProcessor == InitNew /\ [][NextProcessor]_vars

\* ------------------------------------------------- claims on construction
SumWeights(asset_list) ==
    SumSeq([i \in 1..Len(asset_list) |-> asset_list[i].weight])

\* The asset list violates one of: every weight in [0, 1], every volatility
\* non-negative, the weights sum to 1 within tol.
InvalidAssets(asset_list, tol) ==
    \/ \E i \in 1..Len(asset_list) :
          asset_list[i].weight < 0 \/ asset_list[i].weight > ONE
    \/ \E i \in 1..Len(asset_list) : asset_list[i].volatility < 0
    \/ Abs(SumWeights(asset_list) - ONE) > tol

\* C7: constructing a SimulationConfig raises exactly when some listed
\* confidence level is not strictly between 0 and 1, and an omitted list
\* becomes 0.95, 0.99, 0.999.
C7_ConfigRaisesIffLevelOutOfRange ==
    cfg.called =>
        /\ (cfg.config.err # "ok") <=>
              /\ cfg.listed # None
              /\ \E i \in 1..Len(The(cfg.listed)) :
                    The(cfg.listed)[i] <= 0 \/ The(cfg.listed)[i] >= LevelOne
        /\ cfg.listed = None =>
              /\ cfg.config.err = "ok"
              /\ cfg.config.confidence_levels = <<950, 990, 999>>

\* C7 witness: the level 1.0 itself is rejected.
C7_Witness ==
    /\ cfg.called
    /\ cfg.listed = Some(<<950, 1000>>)
    /\ cfg.config.err = "ValueError"

CorrErrors == {"corr_shape", "corr_symmetric", "corr_psd", "corr_diagonal"}

Returned(t, op) ==
    /\ pc[t] = "idle"
    /\ frame[t].op = op
    /\ result[t].kind # "exception"
    /\ result[t].kind # "none"

\* The mu and sigma of the objects self.assets refers to equal those given.
SameParameters(objects) ==
    /\ Len(AssetObjects) = Len(objects)
    /\ \A i \in 1..Len(objects) :
          /\ AssetObjects[i].expected_return = objects[i].expected_return
          /\ AssetObjects[i].volatility = objects[i].volatility

\* C1: after stress_test returns, every asset's expected_return and
\* volatility equal the values they had immediately before the call.
C1_StressTestRestoresParameters ==
    Returned(1, "stress_test") => SameParameters(frame[1].entry_assets)

\* C2: inside stress_test the parameters scenario k is simulated with are
\* the base values with only scenario k's modifications applied.
C2_ScenarioRunsOnBaseModel ==
    (frame[1].op = "stress_test" /\ pc[1] \in {"seed", "draw", "assets", "metrics"}) =>
        SameParameters(
            [i \in 1..Len(frame[1].entry_assets) |->
                Stressed(frame[1].entry_assets[i],
                         frame[1].stress_scenarios[frame[1].k].modifications)])

\* C3: from its entry on, whether it is running, has returned or has raised,
\* calculate_var leaves every field of every asset and the correlation
\* matrix as they were when it was entered.
C3_CalculateVarLeavesModel ==
    frame[1].op = "calculate_var" =>
        /\ heap = frame[1].entry_heap
        /\ AssetObjects = frame[1].entry_assets
        /\ correlation_matrix = frame[1].entry_correlation_matrix
        /\ num_assets = Len(frame[1].entry_assets)

\* C3 witness: calculate_var raised after the random numbers were drawn.
C3_Witness ==
    /\ pc[1] = "idle"
    /\ frame[1].op = "calculate_var"
    /\ Len(frame[1].random_numbers) > 0
    /\ result[1] = Exception("calculate_var", "NotImplementedError")

\* What calculate_var(c, process) returns for a seeded c on the given model
\* when np.random is touched by nobody else between its seeding and its
\* drawing: a function of the model, the config and the process alone.
RunAlone(asset_objects, corr, n, c, process) ==
    LET count == n * c.num_simulations * c.time_horizon
        outcomes ==
            {VaRResults(returns, c) :
                returns \in
                    {PortfolioReturns(asset_objects, random_numbers, process,
                                      TimeStep(c.time_horizon),
                                      c.num_simulations, c.time_horizon) :
                        random_numbers \in
                            {CorrelatedRandoms(chol_matrix, draws, n,
                                               c.num_simulations, c.time_horizon) :
                                chol_matrix \in {CorrelationTransform(corr)},
                                draws \in {DrawNormals(Seeded(The(c.random_seed)),
                                                      count)}}}}
    IN  CHOOSE outcome \in outcomes : TRUE

\* The seeded calculate_var of caller t has returned what it returns alone.
ReturnsAsAlone(t) ==
    (Returned(t, "calculate_var") /\ The(config[t]).random_seed # None) =>
        result[t] = RunAlone(AssetObjects, correlation_matrix, num_assets,
                             The(config[t]), frame[t].process)

\* C4: a seeded calculate_var returns VaR, CVaR, percentile and return
\* values that depend on the model, the config and the process only, so two
\* runs with the same ones return the same values whatever was calculated
\* or drawn before or between them.
C4_SeededRunsAreReproducible == ReturnsAsAlone(1)

\* C4 witness: a seeded run has returned on a model that an earlier stress
\* test, with its own seeding and draws, left with doubled volatilities.
C4_Witness ==
    /\ Returned(1, "calculate_var")
    /\ The(config[1]).random_seed = Some(1)
    /\ frame[1].entry_assets[1].volatility = 4
    /\ Len(result[1].portfolio_returns) = 1

\* C5: when the seeding and drawing of two seeded calculate_var executions
\* interleave, each returns the result it returns when run alone.
C5_ConcurrentRunsDoNotInterfere == \A t \in Threads : ReturnsAsAlone(t)

\* C6: no simulation step (seeding, drawing, the asset loop, the metrics)
\* runs with num_simulations <= 0 or time_horizon <= 0.
C6_NoStepWithNonPositiveConfig ==
    pc[1] \in {"seed", "draw", "assets", "metrics"} =>
        /\ The(config[1]).num_simulations > 0
        /\ The(config[1]).time_horizon > 0

\* C8: whenever no call is running, after any sequence of calculate_var and
\* stress_test calls on a valid model, every asset's volatility is >= 0.
C8_VolatilityNeverNegative ==
    (\A t \in Threads : pc[t] = "idle") =>
        \A r \in DOMAIN heap : heap[r].volatility >= 0

\* ------------------------------------------------- claims on the invariants
\* No kernel operation has changed a weight, the length of the asset list
\* or the correlation matrix of the model that was constructed, and the
\* number of assets is the dimension of the matrix.
ModelShapeKept ==
    /\ Len(assets) = Len(ctor.assets)
    /\ num_assets = Len(assets)
    /\ \A i \in 1..Len(assets) : AssetObjects[i].weight = ctor.assets[i].weight
    /\ correlation_matrix =
          (IF ctor.corr = None THEN Eye(Len(ctor.assets)) ELSE The(ctor.corr))
    /\ Shape(correlation_matrix) = <<num_assets, num_assets>>

PositiveDefinite(A) ==
    \A k \in 1..Len(A) : Det(SubMatrix(A, [i \in 1..k |-> i])) > 0

\* T is a square root of A: T @ T.T equals A up to the rounding of the
\* entries of T.
IsRootOf(T, A) ==
    /\ Shape(T) = Shape(A)
    /\ \A i \in 1..Len(A) : \A j \in 1..Len(A) :
          Abs(SumSeq([k \in 1..Len(A) |-> T[i][k] * T[j][k]])
                - (A[i][j] * TransOne * TransOne) \div CorrOne)
             <= 2 * Len(A) * TransOne

LowerTriangular(T) ==
    \A i \in 1..Len(T) : \A j \in 1..Len(T) : j > i => T[i][j] = 0

\* The call of caller t has drawn its correlated random numbers.
Drawn(t) ==
    /\ frame[t].op \in {"calculate_var", "stress_test"}
    /\ frame[t].chol_matrix # <<>>

HasResult == result[1].kind = "VaRResults"

C15_VarMonotoneInLevel ==
    HasResult =>
        \A c1 \in DOMAIN result[1].var_estimates :
        \A c2 \in DOMAIN result[1].var_estimates :
            c1 <= c2 => result[1].var_estimates[c1] <= result[1].var_estimates[c2]

\* C15 witness: the levels listed as 0.999, 0.5 on the returns -2, 3, 0:
\* the VaR is 0 at 0.5 and 1.996 at 0.999.
C15_Witness ==
    /\ HasResult
    /\ The(config[1]).confidence_levels = <<999, 500>>
    /\ result[1].portfolio_returns = <<-2, 3, 0>>
    /\ result[1].var_estimates[500] = 0
    /\ result[1].var_estimates[999] = 1996

\* The k-th smallest of the returns, by counting: fewer than k returns lie
\* below it and at least k do not exceed it.
OrderStatistic(returns, k) ==
    CHOOSE x \in Range(returns) :
        /\ Cardinality({i \in 1..Len(returns) : returns[i] < x}) < k
        /\ Cardinality({i \in 1..Len(returns) : returns[i] <= x}) >= k

\* The q-th percentile (q in units of 1/10 percent) of the returns under
\* linear interpolation, in units of 1/(PortOne * LevelOne): the point
\* q * (N - 1) of the way through the order statistics.
InterpolatedPercentile(returns, q) ==
    LET below == (q * (Len(returns) - 1)) \div LevelOne
        part == (q * (Len(returns) - 1)) % LevelOne
        above == IF below + 1 < Len(returns) THEN below + 2 ELSE below + 1
    IN  (LevelOne - part) * OrderStatistic(returns, below + 1)
          + part * OrderStatistic(returns, above)

\* C16: for every configured level c the recorded VaR is the negated
\* (1 - c) * 100-th percentile of the returns of the result, and the recorded
\* percentile is (1 - c) * 100.
C16_VarIsNegatedPercentile ==
    HasResult =>
        /\ DOMAIN result[1].var_estimates = Range(The(config[1]).confidence_levels)
        /\ DOMAIN result[1].percentiles = Range(The(config[1]).confidence_levels)
        /\ \A c \in Range(The(config[1]).confidence_levels) :
              /\ result[1].percentiles[c] = LevelOne - c
              /\ result[1].var_estimates[c] =
                    -InterpolatedPercentile(result[1].portfolio_returns, LevelOne - c)

\* C16 witness: on the returns 3, -2 the 5th percentile lies 5% of the way
\* from -2 to 3, so the VaR at 0.95 is 1.75.
C16_Witness ==
    /\ HasResult
    /\ result[1].portfolio_returns = <<3, -2>>
    /\ 950 \in DOMAIN result[1].var_estimates
    /\ result[1].percentiles[950] = 50
    /\ result[1].var_estimates[950] = 1750

\* The paths of the result whose return is at or below -VaR(c).
TailPaths(c) ==
    {i \in 1..Len(result[1].portfolio_returns) :
        result[1].portfolio_returns[i] * LevelOne <= -result[1].var_estimates[c]}

\* C17: for every configured level c the CVaR is the negated mean of
\* exactly the returns at or below -VaR(c), and it is VaR(c) when there is
\* no such return.
C17_CvarIsNegatedTailMean ==
    HasResult =>
        \A c \in Range(The(config[1]).confidence_levels) :
            LET returns == result[1].portfolio_returns
                total == SumSeq([i \in 1..Len(returns) |->
                                    IF i \in TailPaths(c) THEN returns[i] ELSE 0])
                cvar == result[1].cvar_estimates[c]
            IN  /\ cvar.den > 0
                /\ TailPaths(c) # {} =>
                      cvar.num * Cardinality(TailPaths(c)) = -(total * LevelOne) * cvar.den
                /\ TailPaths(c) = {} =>
                      cvar.num = result[1].var_estimates[c] * cvar.den

\* C17 witness: on the returns -2, 3, 0 the VaR at 0.95 is 1.8, only the
\* return -2 lies in the tail and the CVaR is 2.
C17_Witness ==
    /\ HasResult
    /\ result[1].portfolio_returns = <<-2, 3, 0>>
    /\ 950 \in DOMAIN result[1].var_estimates
    /\ result[1].var_estimates[950] = 1800
    /\ TailPaths(950) = {1}
    /\ result[1].cvar_estimates[950] = [num |-> 2 * LevelOne, den |-> 1]

\* C18: a result of calculate_var has its VaR, CVaR and percentile entries
\* keyed by exactly the distinct configured levels, as many portfolio
\* returns as num_simulations, and num_simulations in its statistics.
C18_ResultShape ==
    HasResult =>
        LET levels == Range(The(config[1]).confidence_levels)
        IN  /\ DOMAIN result[1].var_estimates = levels
            /\ DOMAIN result[1].cvar_estimates = levels
            /\ DOMAIN result[1].percentiles = levels
            /\ Len(result[1].portfolio_returns) = The(config[1]).num_simulations
            /\ result[1].statistics.num_simulations = The(config[1]).num_simulations

\* C18 witness: two simulations under the levels 0.95, 0.5, 0.95 give two
\* entries of each kind and two returns.
C18_Witness ==
    /\ HasResult
    /\ The(config[1]).confidence_levels = <<950, 500, 950>>
    /\ DOMAIN result[1].cvar_estimates = {500, 950}
    /\ Len(result[1].portfolio_returns) = 2

\* ------------------------------------------------ claims on the scenario keys
KnownKeys == {"volatility_multiplier", "return_shift"}

\* The scenario the loop of stress_test is about to apply.
NextScenario == frame[1].stress_scenarios[frame[1].k + 1]

\* The step of the loop that applies a scenario and enters calculate_var.
ScenarioApplied == pc[1] = "scenario" /\ pc'[1] = "seed"

\* C19: applying a scenario multiplies each volatility by its
\* volatility_multiplier when it has one, adds its return_shift to each
\* expected return when it has one, and does nothing else, whichever other
\* keys the dictionary holds; a scenario without a known key leaves every
\* asset as it was and goes on to its simulation like any other.
C19_UnknownKeysIgnored ==
    [][ScenarioApplied =>
          LET m == NextScenario.modifications
          IN  /\ \A i \in 1..Len(assets) :
                    heap'[assets[i]] =
                        [heap[assets[i]] EXCEPT
                            !.volatility =
                                IF "volatility_multiplier" \in DOMAIN m
                                THEN @ * m["volatility_multiplier"] ELSE @,
                            !.expected_return =
                                IF "return_shift" \in DOMAIN m
                                THEN @ + m["return_shift"] ELSE @]
              /\ DOMAIN m \cap KnownKeys = {} => heap' = heap
              /\ assets' = assets
              /\ result'[1].kind # "exception"]_vars

\* A stress test has returned the metrics of a scenario that holds nothing
\* but an unknown key, and of one that holds an unknown key next to a
\* return shift.
C19_Witness ==
    /\ Returned(1, "stress_test")
    /\ Len(frame[1].stress_scenarios) = 2
    /\ DOMAIN frame[1].stress_scenarios[1].modifications = {"liquidity_haircut"}
    /\ DOMAIN frame[1].stress_scenarios[2].modifications = {"return_shift", "liquidity_haircut"}
    /\ Len(result[1].results) = 2

\* ------------------------------------------- claims on the degenerate model
\* The model holds one asset of weight 1.0 and volatility 0.
Degenerate ==
    /\ num_assets = 1
    /\ Len(assets) = 1
    /\ AssetObjects[1].weight = ONE
    /\ AssetObjects[1].volatility = 0

\* The states a generator can be in when the simulation draws from it.
GeneratorStates == {[seed |-> s, pos |-> p] : s \in {0, 1, 42}, p \in 0..(RngPeriod - 1)}

\* The portfolio returns of the simulation behind the result of caller 1,
\* had its draws come from the generator state r.
ReturnsDrawnFrom(r) ==
    LET c == The(config[1])
    IN  PortfolioReturns(AssetObjects,
                         CorrelatedRandoms(CorrelationTransform(correlation_matrix),
                                           DrawNormals(r, c.num_simulations * c.time_horizon),
                                           1, c.num_simulations, c.time_horizon),
                         frame[1].process, TimeStep(c.time_horizon),
                         c.num_simulations, c.time_horizon)

Holds(t) ==
    /\ pc[t] = "idle"
    /\ result[t].kind \in {"VaRResults", "dict"}

\* Holder t goes on to a new configuration or a new call in this step,
\* which drops what it held.
Drops(t) == pc'[t] # "idle" \/ config'[t] # config[t] \/ frame'[t] # frame[t]

\* C21: a result a caller holds stays as it was returned through every step
\* of every later calculate_var and stress_test on the same model, and the
\* results stress_test has stored for its earlier scenarios stay as they
\* were while its later scenarios are calculated.
C21_ReturnedResultsAreNeverAltered ==
    [][/\ \A t \in Threads : (Holds(t) /\ ~Drops(t)) => result'[t] = result[t]
       /\ \A t \in Threads :
             (frame[t].op = "stress_test" /\ frame'[t].op = "stress_test"
                 /\ pc[t] # "idle") =>
                     /\ Len(frame'[t].results) >= Len(frame[t].results)
                     /\ \A i \in 1..Len(frame[t].results) :
                           frame'[t].results[i] = frame[t].results[i]]_vars

\* C21 witness: one holder has a calculate_var result and the other the
\* results of a later stress test of two scenarios on the same model, with
\* other returns than the first.
C21_Witness ==
    /\ Holds(1)
    /\ Holds(2)
    /\ result[1].kind = "VaRResults"
    /\ result[2].kind = "dict"
    /\ Len(result[2].results) = 2
    /\ frame[2].entry_heap # frame[1].entry_heap \/ rng # Seeded(0)
    /\ result[2].results[1][2].portfolio_returns # result[1].portfolio_returns
    /\ result[2].results[2][2] # result[2].results[1][2]

\* --------------------------------------------------- claims on the endpoint
\* A POST /monte_carlo_var whose body parsed has been answered.
Posted ==
    /\ reply.to = "POST"
    /\ reply.body # None
    /\ The(reply.body) # Malformed

\* ... by the endpoint of the Monte Carlo router.
PostedToRouter ==
    Posted /\ reply.endpoint = "monte_carlo_api.calculate_monte_carlo_var"

\* C22: a POST /monte_carlo_var whose weights do not sum to 1 is answered
\* with 200 or 400, one with empty assets, weights and returns with 200,
\* 400 or 422, and no request validate_api_request rejects with 500.
C22_InvalidInputIsNot500 ==
    Posted =>
        LET body == The(reply.body)
            status == reply.response.status
        IN  /\ (Len(body.weights) > 0 /\ ~ApiWeightsSumToOne(SumSeq(body.weights)))
                   => status \in {200, 400}
            /\ (body.assets = <<>> /\ body.weights = <<>>
                   /\ body.historical_returns = <<>>)
                   => status \in {200, 400, 422}
            /\ ~ValidateApiRequest(body).ok => status # 500

\* A request with nothing wrong in it: as many weights and columns as
\* assets, at least two observations, weights in [0, 1] that sum to 1
\* exactly, a positive number of simulations and of steps, levels strictly
\* between 0 and 1, and no correlation matrix of its own.
ValidRequest(body) ==
    /\ Len(body.assets) >= 1
    /\ Len(body.weights) = Len(body.assets)
    /\ Len(body.historical_returns) >= 2
    /\ \A t \in 1..Len(body.historical_returns) :
           Len(body.historical_returns[t]) = Len(body.assets)
    /\ \A i \in 1..Len(body.weights) : body.weights[i] \in 0..ONE
    /\ SumSeq(body.weights) = ONE
    /\ body.num_simulations > 0
    /\ body.time_horizon > 0
    /\ \A i \in 1..Len(body.confidence_levels) :
           body.confidence_levels[i] \in 1..(LevelOne - 1)
    /\ body.correlation_matrix = None

\* The answer the valid request is promised.
ResultsPerLevel(body, response) ==
    /\ response.status = 200
    /\ {"var_results", "portfolio_statistics", "simulation_parameters"}
           \subseteq DOMAIN response.content
    /\ Len(response.content.var_results) = Len(body.confidence_levels)
    /\ \A i \in 1..Len(body.confidence_levels) :
           /\ {"confidence_level", "var_value", "var_dollar", "cvar_value",
               "cvar_dollar"} \subseteq DOMAIN response.content.var_results[i]
           /\ response.content.var_results[i].confidence_level
                  = body.confidence_levels[i]

\* C23: a valid POST /monte_carlo_var is answered 200 with one var_results
\* entry per requested confidence level, in request order, each with its
\* five fields, and with portfolio_statistics and simulation_parameters.
C23_ValidRequestGetsResultsPerLevel ==
    (Posted /\ ValidRequest(The(reply.body)))
        => ResultsPerLevel(The(reply.body), reply.response)

\* ------------------------------------------------------- claims on routing
\* A GET of the path has been answered by the given application.
Got(modules, path) ==
    /\ reply.to = "GET"
    /\ reply.path = path
    /\ app.module \in modules

\* The app holds a route of the Monte Carlo router for the path as well.
RouterServes(path) ==
    \E i \in 1..Len(app.routes) :
        /\ app.routes[i].path = path
        /\ app.routes[i].method = "GET"
        /\ app.routes[i] \in Range(MonteCarloRouter)

\* C24: GET /health on the simple_main app is answered 200 with the body
\* {"status": "healthy"} of the handler the app registered first, whether
\* or not the Monte Carlo router with its own /health has been included.
C24_SimpleMainHealthIsAppHandler ==
    Got({"simple_main", "simple_main without backend"}, "/health") =>
        /\ reply.endpoint = "simple_main.health_check"
        /\ reply.response = Response(200, [status |-> "healthy"])

C24_Witness ==
    /\ Got({"simple_main"}, "/health")
    /\ RouterServes("/health")
    /\ reply.response = Response(200, [status |-> "healthy"])

\* C30: in the app of backend/app/main.py the two paths registered both by
\* the un-prefixed Monte Carlo router and by the app are served by the
\* app's handlers: GET /health answers exactly {"status": "healthy"} and
\* GET /sample_data the built-in sample, without reading files.
C30_MainAppHandlersServeSharedPaths ==
    /\ Got({"main"}, "/health") =>
           /\ reply.endpoint = "main.health_check"
           /\ reply.response = Response(200, [status |-> "healthy"])
    /\ Got({"main"}, "/sample_data") =>
           /\ reply.endpoint = "main.get_sample_data"
           /\ reply.response = GetResponse("main.get_sample_data", FALSE)

\* --------------------------------------------- claims on the two validations
\* The kernel's checks on weights: AssetParameters wants each in [0, 1]
\* and MonteCarloVaR.__init__ their sum within 1e-5 of 1.
KernelAcceptsWeights(weights) ==
    /\ \A i \in 1..Len(weights) : 0 <= weights[i] /\ weights[i] <= ONE
    /\ WeightsSumToOne(SumSeq(weights))

\* The same request with two equal weights.
WithEqualWeights(body) == [body EXCEPT !.weights = <<ONE \div 2, ONE \div 2>>]

\* C27: the weights of a request validate_api_request accepts pass the
\* kernel's checks too, so that a request which goes through with weights
\* 0.5 and 0.5 goes through with any other weights the API accepts.
C27_ApiValidationImpliesKernelChecks ==
    (PostedToRouter /\ ValidateApiRequest(The(reply.body)).ok) =>
        /\ KernelAcceptsWeights(The(reply.body).weights)
        /\ (/\ Len(The(reply.body).weights) = 2
            /\ CalculateMonteCarloVar(WithEqualWeights(The(reply.body))).status = 200)
               => reply.response.status = 200

\* ------------------------------------------------ claims on DataProcessor
\* Call k on the processor was the method and returned something.
Succeeded(k, method) ==
    /\ Calls[k].method = method
    /\ Calls[k].returned # None

\* A call of the method before call k returned something.
SucceededBefore(k, method) == \E j \in 1..(k - 1) : Succeeded(j, method)

\* C25: load_historical_returns returns and stores the returns only after
\* a load_portfolio_weights on the same processor succeeded, else it
\* returns None and nothing is stored; get_portfolio_data returns None
\* unless both a weights and a returns load have succeeded before.
C25_LoadOrdering ==
    reply.to = "DataProcessor" =>
        /\ \A k \in 1..Len(Calls) :
               /\ Succeeded(k, "load_historical_returns")
                      => SucceededBefore(k, "load_portfolio_weights")
               /\ Succeeded(k, "get_portfolio_data")
                      => /\ SucceededBefore(k, "load_portfolio_weights")
                         /\ SucceededBefore(k, "load_historical_returns")
        /\ processor.historical_returns # None
               => SucceededBefore(Len(Calls) + 1, "load_historical_returns")
        /\ Succeeded(Len(Calls), "load_historical_returns")
               => processor.historical_returns = Calls[Len(Calls)].returned
        /\ processor.portfolio_weights # None
               <=> SucceededBefore(Len(Calls) + 1, "load_portfolio_weights")

\* The same returns are turned down before the weights are loaded and
\* taken after.
C25_Witness ==
    /\ reply.to = "DataProcessor"
    /\ Len(Calls) = 3
    /\ Calls[1].method = "load_historical_returns"
    /\ Calls[1].returned = None
    /\ Succeeded(2, "load_portfolio_weights")
    /\ Succeeded(3, "load_historical_returns")
    /\ Calls[3].argument = Calls[1].argument
    /\ processor.historical_returns = Some(Calls[3].argument)

\* The weights table is one the claim has accepted: the columns are there
\* and numeric, the raw weights sum to a value in [0.95, 1.05] and none is
\* negative.
Acceptable(df) ==
    /\ df # Unreadable
    /\ {"asset", "weight"} \subseteq df.columns
    /\ df.dtype = "float64"
    /\ SkipNaSum(df.weight) \in (95 * (CsvOne \div 100))..(105 * (CsvOne \div 100))
    /\ \A i \in 1..Len(df.weight) : df.weight[i] = NaN \/ df.weight[i] >= 0

\* The stored weights that sum to 1, each in [0, 1].
RECURSIVE SumNum(_)
SumNum(weight) ==
    IF Len(weight) = 0 THEN 0 ELSE weight[1].num + SumNum(Tail(weight))

SumToOneInUnitInterval(weight) ==
    /\ \A i \in 1..Len(weight) :
           /\ weight[i].num # NaN
           /\ 0 <= weight[i].num
           /\ weight[i].num <= weight[i].den
    /\ SumNum(weight) = weight[1].den

\* What the load_portfolio_weights calls up to call k have left stored.
RECURSIVE StoredWeights(_)
StoredWeights(k) ==
    IF k = 0 THEN None
    ELSE IF Succeeded(k, "load_portfolio_weights") THEN Calls[k].returned
    ELSE StoredWeights(k - 1)

\* C26: load_portfolio_weights accepts a table exactly when its columns
\* are there and numeric, the raw weights sum to a value in [0.95, 1.05]
\* and none is negative; the weights it then stores are the raw ones
\* divided by their sum, sum to 1 and lie in [0, 1]; when it rejects it
\* returns None and the stored weights and assets stay as they were.
C26_AcceptedWeightsAreNormalised ==
    reply.to = "DataProcessor" =>
        /\ \A k \in 1..Len(Calls) :
               Calls[k].method = "load_portfolio_weights" =>
                   /\ Calls[k].returned # None <=> Acceptable(Calls[k].argument)
                   /\ Calls[k].returned # None =>
                          /\ The(Calls[k].returned).weight
                                 = Normalised(Calls[k].argument.weight)
                          /\ The(Calls[k].returned).asset = Calls[k].argument.asset
                          /\ SumToOneInUnitInterval(The(Calls[k].returned).weight)
        /\ processor.portfolio_weights = StoredWeights(Len(Calls))
        /\ processor.assets =
               IF StoredWeights(Len(Calls)) = None THEN None
               ELSE Some(The(StoredWeights(Len(Calls))).asset)

\* C28: after any sequence of loads, stored returns have a column for each
\* asset of the stored asset list, so get_portfolio_data returns the data
\* whenever both weights and returns are stored.
C28_StoredReturnsCoverStoredAssets ==
    processor.historical_returns # None =>
        /\ processor.assets # None
        /\ Range(The(processor.assets))
               \subseteq DOMAIN The(processor.historical_returns).dtype
        /\ processor.portfolio_weights # None => PortfolioData(processor) # None

\* ------------------------------------------------- claims on the horizon
\* A geometric Brownian motion has been simulated over a positive number
\* of steps.
SimulatedGbm ==
    /\ Returned(1, "calculate_var")
    /\ HasResult
    /\ frame[1].process = "gbm"
    /\ The(config[1]).time_horizon > 0

\* Random numbers of one step for the model's assets, all zero.
OneStepOfZeros(num_sims) ==
    [i \in 1..Len(assets) |-> [sim \in 1..num_sims |-> <<0>>]]

=============================================================================
